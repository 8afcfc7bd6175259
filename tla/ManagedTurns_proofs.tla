------------------------- MODULE ManagedTurns_proofs -------------------------
(* Proofs about ManagedTurns, for any number of requests and of turns, and any     *)
(* sizes of inputs and tails.                                                      *)
EXTENDS ManagedTurns, FiniteSetTheorems, SequenceTheorems, TLAPS

----------------------------------------------------------------------------
(* Numbers and sequences *)

LEMMA LeastElement ==
    ASSUME NEW T \in SUBSET Nat, T # {}
    PROVE  \E x \in T : \A y \in T : x <= y
<1>. DEFINE R == OpToRel(<, Nat)
<1>1. IsWellFoundedOn(R, Nat)
  BY NatLessThanWellFounded
<1>2. \A x, y \in Nat : x < y => <<x, y>> \in R
  BY DEF OpToRel
<1>. HIDE DEF R
<1>3. PICK x \in T : \A y \in T : <<y, x>> \notin R
  BY <1>1, WFMin
<1>4. \A y \in T : ~(y < x)
  BY <1>2, <1>3
<1>5. \A y \in T : x \in Nat /\ y \in Nat /\ x <= y
  BY <1>4
<1>. QED BY <1>5

LEMMA GreatestElement ==
    ASSUME NEW T \in SUBSET Nat, NEW b \in Nat, T # {}, \A t \in T : t <= b
    PROVE  \E x \in T : \A y \in T : y <= x
<1>. DEFINE Bounds == {n \in Nat : \A t \in T : t <= n}
<1>1. PICK n \in Bounds : \A m \in Bounds : n <= m
  BY LeastElement
<1>2. CASE n \in T
  BY <1>1, <1>2
<1>3. CASE n \notin T
  <2>1. n \in Nat /\ \A t \in T : t \in Nat /\ t <= n /\ t # n
    BY <1>3
  <2>2. \A t \in T : t \in Nat /\ t < n
    BY <2>1
  <2>3. n > 0
    <3>1. PICK t \in T : t \in Nat
      OBVIOUS
    <3>. QED BY <2>1, <2>2, <3>1
  <2>4. n - 1 \in Nat
    BY <2>1, <2>3
  <2>5. \A t \in T : t <= n - 1
    BY <2>1, <2>2, <2>4
  <2>6. n - 1 \in Bounds
    BY <2>4, <2>5
  <2>7. n <= n - 1
    BY <1>1, <2>6
  <2>. QED BY <2>1, <2>7
<1>. QED BY <1>2, <1>3

LEMMA ShortSequences ==
    ASSUME NEW S, NEW a \in S, NEW b \in S
    PROVE  /\ <<>> \in Seq(S) /\ <<a>> \in Seq(S) /\ <<a, b>> \in Seq(S)
           /\ Len(<<a>>) = 1 /\ <<a>>[1] = a
           /\ Len(<<a, b>>) = 2 /\ <<a, b>>[1] = a /\ <<a, b>>[2] = b
           /\ <<a>> \o <<>> = <<a>> /\ <<a>> \o <<b>> = <<a, b>>
<1>1. <<>> \in Seq(S) /\ <<a>> \in Seq(S) /\ <<a, b>> \in Seq(S)
  OBVIOUS
<1>2. /\ Len(<<a>>) = 1 /\ <<a>>[1] = a
      /\ Len(<<a, b>>) = 2 /\ <<a, b>>[1] = a /\ <<a, b>>[2] = b
  OBVIOUS
<1>3. <<a>> \o <<>> = <<a>>
  BY <1>1, ConcatEmptySeq
<1>4. /\ <<a>> \o <<b>> \in Seq(S) /\ Len(<<a>> \o <<b>>) = 2
      /\ (<<a>> \o <<b>>)[1] = a /\ (<<a>> \o <<b>>)[2] = b
  <2>1. <<b>> \in Seq(S) /\ Len(<<b>>) = 1 /\ <<b>>[1] = b
    OBVIOUS
  <2>2. /\ <<a>> \o <<b>> \in Seq(S) /\ Len(<<a>> \o <<b>>) = 1 + 1
        /\ \A i \in 1 .. 1 + 1 : (<<a>> \o <<b>>)[i] = IF i <= 1 THEN <<a>>[i] ELSE <<b>>[i - 1]
    BY <1>1, <1>2, <2>1, ConcatProperties
  <2>. QED BY <1>2, <2>1, <2>2
<1>5. <<a>> \o <<b>> = <<a, b>>
  <2>. DEFINE two == <<a>> \o <<b>>
              pair == <<a, b>>
  <2>1. /\ two \in Seq(S) /\ pair \in Seq(S) /\ Len(two) = 2 /\ Len(pair) = 2
        /\ two[1] = a /\ two[2] = b /\ pair[1] = a /\ pair[2] = b
    BY <1>1, <1>2, <1>4
  <2>. HIDE DEF two, pair
  <2>2. two = pair
    BY <2>1, SeqEqual
  <2>. QED BY <2>2 DEF two, pair
<1>. QED BY <1>1, <1>2, <1>3, <1>5

----------------------------------------------------------------------------
(* The inductive invariant *)

\* The input of a turn lies in the log, and so does all that was summarised.
Placed ==
    /\ compaction.through <= Len(log)
    /\ \A s \in compaction.pins \cup compaction.short : s <= compaction.through
    /\ \A e \in Events : turn[e].state # "none" =>
           turn[e].end <= Len(log) /\ \A s \in InputOf(e) : log[s].kind \in {"input", "result"}
\* Only a completed turn has an answer.
Answered == \A s \in 1..Len(log) : log[s].kind = "answer" =>
                log[s].event \in Events /\ turn[log[s].event].state = "completed"
\* While a turn is leased no other message is added.
Latest == \A e \in Events : turn[e].live => \A s \in Messages : s <= turn[e].end
\* A request under way has claimed a turn.
Named == \A r \in Requests :
             req[r].st \in {"claimed", "ready", "asked", "closing"} \/ req[r].result = "success" =>
                 req[r].event \in Events
\* What a request has read is still so while it holds the lease.
Informed(r) ==
    req[r].st \in {"ready", "asked"} /\ Holds(r) =>
        /\ \A s \in Messages : s <= req[r].upto
        /\ req[r].known = compaction
        /\ \A e \in Unresolved : \A s \in InputOf(e) :
               s > compaction.through => s \in req[r].protected
        /\ req[r].protected \cap compaction.short = {}

IInv == /\ TypeOK /\ Placed /\ Answered /\ Latest /\ Named
        /\ \A r \in Requests : Informed(r)
        /\ AnswerFollowsInput /\ SuccessIsStored /\ UnresolvedIsKept

RowSet == [kind : {"input", "result", "answer", "checkpoint"}, event : Events \cup {None}]
TurnSet == [state : {"none", "pending", "failed", "completed"},
            lease : Requests \cup {None}, live : BOOLEAN, end : Nat]
RequestSet == [st : {"idle", "claimed", "ready", "asked", "closing", "over"},
               event : Events \cup {None}, upto : Nat,
               known : Compactions, protected : SUBSET Nat,
               result : {"none", "success", "error"}]

\* The parts of the invariant that do not depend on the requests.
StoreOK ==
    /\ status \in {"active", "archived", "deleted"}
    /\ log \in Seq(RowSet)
    /\ turn \in [Events -> TurnSet]
    /\ \A e \in Events : turn[e].live => turn[e].state = "pending"
    /\ \A e, f \in Events : turn[e].state = "pending" /\ turn[f].state = "pending" => e = f
    /\ compaction \in Compactions
    /\ Placed /\ Answered /\ Latest /\ AnswerFollowsInput /\ UnresolvedIsKept
RequestsOK ==
    /\ req \in [Requests -> RequestSet]
    /\ Named /\ SuccessIsStored /\ \A r \in Requests : Informed(r)

LEMMA TwoParts == IInv <=> StoreOK /\ RequestsOK
BY DEF IInv, StoreOK, RequestsOK, TypeOK, RowSet, TurnSet, RequestSet

LEMMA StoreUnchanged ==
    ASSUME StoreOK, UNCHANGED store
    PROVE  StoreOK'
BY DEF StoreOK, store, Placed, Answered, Latest, AnswerFollowsInput, UnresolvedIsKept,
       Intact, Exact, Messages, InputOf

\* A request moves, and what the others rely on stays.
LEMMA RequestMoves ==
    ASSUME RequestsOK, NEW r \in Requests, NEW q \in RequestSet, req' = [req EXCEPT ![r] = q],
           q.st \in {"claimed", "ready", "asked", "closing"} \/ q.result = "success" =>
               q.event \in Events,
           q.result = "success" /\ status' # "deleted" => turn'[q.event].state = "completed",
           Informed(r)',
           \A e \in Events : turn[e].state = "completed" /\ status' # "deleted" =>
               turn'[e].state = "completed",
           status = "deleted" => status' = "deleted",
           \A p \in Requests \ {r} : req[p].st \in {"ready", "asked"} => Informed(p)'
    PROVE  RequestsOK'
<1>1. /\ req \in [Requests -> RequestSet] /\ req'[r] = q
      /\ \A p \in Requests \ {r} : req'[p] = req[p]
  BY DEF RequestsOK
<1>2. req' \in [Requests -> RequestSet]
  BY <1>1
<1>3. Named'
  BY <1>1 DEF RequestsOK, Named
<1>4. SuccessIsStored'
  <2>1. SUFFICES ASSUME NEW p \in Requests, req'[p].result = "success", status' # "deleted"
                 PROVE  turn'[req'[p].event].state = "completed"
    BY DEF SuccessIsStored
  <2>2. CASE p = r
    BY <1>1, <2>1, <2>2
  <2>3. CASE p # r
    <3>1. req[p].event \in Events /\ req[p].result = "success" /\ req'[p] = req[p]
      BY <1>1, <2>1, <2>3 DEF RequestsOK, Named
    <3>2. turn[req[p].event].state = "completed"
      BY <3>1, <2>1 DEF RequestsOK, SuccessIsStored
    <3>. QED BY <3>1, <3>2, <2>1
  <2>. QED BY <2>2, <2>3
<1>5. ASSUME NEW p \in Requests
      PROVE  Informed(p)'
  <2>1. CASE p = r
    BY <2>1
  <2>2. CASE p # r /\ req[p].st \in {"ready", "asked"}
    BY <2>2
  <2>3. CASE p # r /\ req[p].st \notin {"ready", "asked"}
    BY <1>1, <2>3 DEF Informed
  <2>. QED BY <2>1, <2>2, <2>3
<1>. QED BY <1>2, <1>3, <1>4, <1>5 DEF RequestsOK

\* The store moves, and no request does.
LEMMA OnlyStoreMoves ==
    ASSUME RequestsOK, UNCHANGED req,
           \A e \in Events : turn[e].state = "completed" /\ status' # "deleted" =>
               turn'[e].state = "completed",
           status = "deleted" => status' = "deleted",
           \A p \in Requests : req[p].st \in {"ready", "asked"} => Informed(p)'
    PROVE  RequestsOK'
<1>1. Named'
  BY DEF RequestsOK, Named
<1>2. SuccessIsStored'
  BY DEF RequestsOK, Named, SuccessIsStored
<1>3. \A p \in Requests : Informed(p)'
  BY DEF Informed
<1>. QED BY <1>1, <1>2, <1>3 DEF RequestsOK

\* What was read stays true of a store in which a request that holds its lease held
\* it before, and no message, unresolved turn or compaction is new.
LEMMA StaysInformed ==
    ASSUME NEW p \in Requests, Informed(p), req'[p] = req[p],
           req[p].st \in {"ready", "asked"} /\ Holds(p)' =>
               /\ Holds(p) /\ Messages' \subseteq Messages /\ UNCHANGED compaction
               /\ Unresolved' \subseteq Unresolved
               /\ \A e \in Events : turn'[e].end = turn[e].end
    PROVE  Informed(p)'
BY DEF Informed, InputOf, Unresolved

----------------------------------------------------------------------------
(* Steps that leave the store alone *)

LEMMA RequestFacts ==
    ASSUME RequestsOK, NEW r \in Requests
    PROVE  /\ req[r] \in RequestSet
           /\ Fresh \in RequestSet /\ Failed \in RequestSet
           /\ req[r].st \in {"claimed", "ready", "asked", "closing"} \/ req[r].result = "success" =>
                  req[r].event \in Events
BY DEF RequestsOK, Named, RequestSet, Fresh, Failed, Nothing, Compactions

LEMMA QuietStep ==
    ASSUME IInv, UNCHANGED store, NEW r \in Requests, NEW q \in RequestSet,
           req' = [req EXCEPT ![r] = q],
           q.st \in {"claimed", "ready", "asked", "closing"} \/ q.result = "success" =>
               q.event \in Events,
           q.result = "success" => req[r].result = "success" /\ q.event = req[r].event,
           Informed(r)'
    PROVE  IInv'
<1>1. StoreOK /\ RequestsOK
  BY TwoParts
<1>2. status' = status /\ log' = log /\ turn' = turn /\ compaction' = compaction
  BY DEF store
<1>3. q.result = "success" /\ status' # "deleted" => turn'[q.event].state = "completed"
  BY <1>1, <1>2 DEF RequestsOK, SuccessIsStored
<1>4. ASSUME NEW p \in Requests \ {r}
      PROVE  Informed(p)'
  <2>1. req'[p] = req[p] /\ Informed(p)
    BY <1>1 DEF RequestsOK
  <2>. QED BY <1>2, <2>1, StaysInformed DEF Messages, Unresolved, Holds
<1>5. \A e \in Events : turn[e].state = "completed" /\ status' # "deleted" =>
          turn'[e].state = "completed"
  BY <1>2
<1>6. status = "deleted" => status' = "deleted"
  BY <1>2
<1>7. RequestsOK'
  BY <1>1, <1>3, <1>4, <1>5, <1>6, RequestMoves
<1>8. StoreOK'
  BY <1>1, StoreUnchanged
<1>. QED BY <1>7, <1>8, TwoParts DEF IInv, StoreOK, RequestsOK, TypeOK, RowSet, TurnSet, RequestSet

LEMMA ReadContextStep ==
    ASSUME IInv, NEW r \in Requests, ReadContext(r)
    PROVE  IInv'
<1>. DEFINE old == UNION {{s \in InputOf(e) : s > compaction.through} : e \in Unresolved}
            q == [req[r] EXCEPT !.st = "ready", !.upto = Len(log), !.known = compaction,
                                !.protected = old]
<1>1. StoreOK /\ RequestsOK
  BY TwoParts
<1>2. /\ req[r] \in RequestSet /\ req[r].event \in Events
      /\ req \in [Requests -> RequestSet]
  BY <1>1, RequestFacts DEF ReadContext, RequestsOK
<1>3. old \in SUBSET Nat
  BY DEF InputOf
<1>4. Len(log) \in Nat /\ compaction \in Compactions
  BY <1>1 DEF StoreOK
<1>5. q \in RequestSet
  BY <1>2, <1>3, <1>4 DEF RequestSet
<1>6. req' = [req EXCEPT ![r] = q] /\ UNCHANGED store
  BY <1>2 DEF ReadContext
<1>7. /\ q.st = "ready" /\ q.event = req[r].event /\ q.result = req[r].result
      /\ q.upto = Len(log) /\ q.known = compaction /\ q.protected = old
  BY <1>2 DEF RequestSet
<1>8. Informed(r)'
  <2>1. req'[r] = q /\ log' = log /\ turn' = turn /\ compaction' = compaction
    BY <1>2, <1>6 DEF store
  <2>2. \A s \in Messages' : s <= req'[r].upto
    BY <2>1, <1>4, <1>7 DEF Messages
  <2>3. \A e \in Unresolved : \A s \in InputOf(e) : s > compaction.through => s \in old
    OBVIOUS
  <2>4. \A e \in Unresolved' : \A s \in InputOf(e)' :
            s > compaction'.through => s \in req'[r].protected
    BY <2>1, <2>3, <1>7 DEF Unresolved, InputOf
  <2>5. old \cap compaction.short = {}
    <3>1. \A s \in compaction.short : s <= compaction.through
      BY <1>1 DEF StoreOK, Placed
    <3>. QED BY <1>3, <1>4, <3>1 DEF Compactions
  <2>. QED BY <2>1, <2>2, <2>4, <2>5, <1>7 DEF Informed
<1>. HIDE DEF q
<1>. QED BY <1>2, <1>5, <1>6, <1>7, <1>8, QuietStep

\* GivesUp, and closing in general: what was read is forgotten.
LEMMA ClosingRequest ==
    ASSUME RequestsOK, NEW r \in Requests, req[r].event \in Events,
           NEW result \in {"none", "success", "error"}, Closing(r, result)
    PROVE  \E q \in RequestSet : /\ q.st = "closing" /\ q.event = req[r].event
                                 /\ q.result = result
                                 /\ req' = [req EXCEPT ![r] = q] /\ req'[r] = q
<1>. DEFINE q == [Fresh EXCEPT !.st = "closing", !.event = req[r].event, !.result = result]
<1>1. q \in RequestSet
  BY DEF RequestSet, Fresh, Nothing, Compactions
<1>2. q.st = "closing" /\ q.event = req[r].event /\ q.result = result
  BY DEF Fresh
<1>3. req' = [req EXCEPT ![r] = q] /\ req \in [Requests -> RequestSet]
  BY DEF Closing, RequestsOK
<1>. HIDE DEF q
<1>4. req'[r] = q
  BY <1>3
<1>. QED BY <1>1, <1>2, <1>3, <1>4

LEMMA GivesUpStep ==
    ASSUME IInv, NEW r \in Requests, GivesUp(r)
    PROVE  IInv'
<1>1. RequestsOK /\ req[r].event \in Events
  BY TwoParts, RequestFacts DEF GivesUp
<1>2. PICK q \in RequestSet : /\ q.st = "closing" /\ q.event = req[r].event
                              /\ q.result = "error"
                              /\ req' = [req EXCEPT ![r] = q] /\ req'[r] = q
  BY <1>1, ClosingRequest DEF GivesUp
<1>3. Informed(r)'
  BY <1>2 DEF Informed
<1>. QED BY <1>1, <1>2, <1>3, QuietStep DEF GivesUp

\* Ask, NextCandidate.
LEMMA AskStep ==
    ASSUME IInv, NEW r \in Requests, Ask(r) \/ NextCandidate(r)
    PROVE  IInv'
<1>1. /\ RequestsOK /\ Informed(r) /\ req[r] \in RequestSet /\ req[r].event \in Events
      /\ req \in [Requests -> RequestSet]
  BY TwoParts, RequestFacts DEF Ask, NextCandidate, RequestsOK
<1>2. PICK st \in {"ready", "asked"} : req' = [req EXCEPT ![r].st = st]
  BY DEF Ask, NextCandidate
<1>. DEFINE q == [req[r] EXCEPT !.st = st]
<1>3. /\ q \in RequestSet /\ q.st = st /\ q.event = req[r].event /\ q.result = req[r].result
      /\ q.upto = req[r].upto /\ q.known = req[r].known /\ q.protected = req[r].protected
  BY <1>1 DEF RequestSet
<1>4. req' = [req EXCEPT ![r] = q] /\ req'[r] = q
  BY <1>1, <1>2
<1>5. UNCHANGED store /\ req[r].st \in {"ready", "asked"}
  BY DEF Ask, NextCandidate
<1>. HIDE DEF q
<1>6. Informed(r)'
  BY <1>1, <1>3, <1>4, <1>5 DEF Informed, store, Holds, Messages, InputOf, Unresolved
<1>. QED BY <1>1, <1>3, <1>4, <1>5, <1>6, QuietStep

\* The client has its result.
LEMMA OverRequest ==
    ASSUME RequestsOK, NEW r \in Requests, Over(r)
    PROVE  \E q \in RequestSet :
               /\ q.st = "over" /\ req' = [req EXCEPT ![r] = q] /\ req'[r] = q
               /\ q.result = "success" => req[r].result = "success" /\ q.event = req[r].event
<1>. DEFINE q == IF req[r].result = "success" THEN [req[r] EXCEPT !.st = "over"] ELSE Failed
<1>1. /\ q \in RequestSet /\ q.st = "over"
      /\ q.result = "success" => req[r].result = "success" /\ q.event = req[r].event
  BY RequestFacts DEF RequestSet, Failed, Fresh
<1>2. req' = [req EXCEPT ![r] = q] /\ req \in [Requests -> RequestSet]
  BY DEF Over, RequestsOK
<1>. HIDE DEF q
<1>. QED BY <1>1, <1>2

LEMMA CrashStep ==
    ASSUME IInv, NEW r \in Requests, Crash(r)
    PROVE  IInv'
<1>1. RequestsOK /\ req[r].event \in Events
  BY TwoParts, RequestFacts DEF Crash
<1>2. PICK q \in RequestSet :
               /\ q.st = "over" /\ req' = [req EXCEPT ![r] = q] /\ req'[r] = q
               /\ q.result = "success" => req[r].result = "success" /\ q.event = req[r].event
  BY <1>1, OverRequest DEF Crash
<1>3. Informed(r)'
  BY <1>2 DEF Informed
<1>. QED BY <1>1, <1>2, <1>3, QuietStep DEF Crash

LEMMA RefuseStep ==
    ASSUME IInv, NEW r \in Requests, Refuse(r)
    PROVE  IInv'
<1>1. RequestsOK /\ req \in [Requests -> RequestSet] /\ Failed \in RequestSet
  BY TwoParts, RequestFacts DEF RequestsOK
<1>2. Failed.st = "over" /\ Failed.result = "error"
  BY DEF Failed, Fresh
<1>3. req' = [req EXCEPT ![r] = Failed] /\ req'[r] = Failed /\ UNCHANGED store
  BY <1>1 DEF Refuse
<1>4. Informed(r)'
  BY <1>2, <1>3 DEF Informed
<1>. QED BY <1>1, <1>2, <1>3, <1>4, QuietStep

----------------------------------------------------------------------------
(* Leases that end, and the owner's steps *)

\* Turns only lose their leases and fail.
Fading == \A e \in Events :
              /\ turn'[e].end = turn[e].end /\ turn'[e].lease = turn[e].lease
              /\ \/ turn'[e].state = turn[e].state
                 \/ turn[e].state = "pending" /\ turn'[e].state = "failed" /\ ~turn'[e].live
              /\ turn'[e].live => turn[e].live

LEMMA TurnsFade ==
    ASSUME IInv, UNCHANGED <<status, log, compaction>>, turn' \in [Events -> TurnSet], Fading
    PROVE  /\ StoreOK'
           /\ \A p \in Requests : req'[p] = req[p] => Informed(p)'
<1>1. StoreOK /\ RequestsOK
  BY TwoParts
<1>2. Messages' = Messages /\ \A e \in Events : InputOf(e)' = InputOf(e)
  BY DEF Messages, InputOf, Fading
<1>3. /\ \A e \in Events : turn'[e].live => turn'[e].state = "pending"
      /\ \A e, f \in Events : turn'[e].state = "pending" /\ turn'[f].state = "pending" => e = f
  BY <1>1 DEF StoreOK, Fading
<1>4. Placed' /\ Answered' /\ Latest'
  BY <1>1, <1>2 DEF StoreOK, Fading, Placed, Answered, Latest
<1>5. AnswerFollowsInput'
  BY <1>1, <1>2 DEF StoreOK, Fading, AnswerFollowsInput, Answered, Messages
<1>6. UnresolvedIsKept'
  BY <1>1, <1>2 DEF StoreOK, Fading, UnresolvedIsKept, Intact, Exact
<1>7. StoreOK'
  BY <1>1, <1>3, <1>4, <1>5, <1>6 DEF StoreOK
<1>8. Unresolved' \subseteq Unresolved
  BY DEF Unresolved, Fading
<1>9. ASSUME NEW p \in Requests, req'[p] = req[p]
      PROVE  Informed(p)'
  <2>1. Informed(p)
    BY <1>1 DEF RequestsOK
  <2>2. req[p].st \in {"ready", "asked"} /\ Holds(p)' => Holds(p)
    BY <1>1, <1>9, RequestFacts DEF Holds, Fading
  <2>. QED BY <1>2, <1>8, <1>9, <2>1, <2>2, StaysInformed DEF Fading
<1>. QED BY <1>7, <1>9

LEMMA LeaseExpiresStep ==
    ASSUME IInv, NEW e \in Events, LeaseExpires(e)
    PROVE  IInv'
<1>1. StoreOK /\ RequestsOK
  BY TwoParts
<1>2. turn \in [Events -> TurnSet] /\ turn[e] \in TurnSet
  BY <1>1 DEF StoreOK
<1>3. turn' = [turn EXCEPT ![e].live = FALSE]
  BY DEF LeaseExpires
<1>4. turn' \in [Events -> TurnSet]
  BY <1>2, <1>3 DEF TurnSet
<1>5. /\ \A f \in Events : f # e => turn'[f] = turn[f]
      /\ turn'[e].end = turn[e].end /\ turn'[e].lease = turn[e].lease
      /\ turn'[e].state = turn[e].state /\ ~turn'[e].live
  BY <1>2, <1>3 DEF TurnSet
<1>6. Fading
  BY <1>5 DEF Fading
<1>7. UNCHANGED <<status, log, compaction, req>>
  BY DEF LeaseExpires
<1>8. StoreOK' /\ \A p \in Requests : Informed(p)'
  BY <1>4, <1>6, <1>7, TurnsFade
<1>9. \A f \in Events : turn[f].state = "completed" => turn'[f].state = "completed"
  BY <1>6 DEF Fading
<1>10. RequestsOK'
  BY <1>1, <1>7, <1>8, <1>9, OnlyStoreMoves
<1>. QED BY <1>8, <1>10, TwoParts DEF IInv, StoreOK, RequestsOK, TypeOK, RowSet, TurnSet, RequestSet

LEMMA EndedTurn ==
    ASSUME turn \in [Events -> TurnSet], NEW e \in Events,
           NEW state \in {"failed", "completed"}, turn' = [turn EXCEPT ![e] = Ended(e, state)]
    PROVE  /\ turn' \in [Events -> TurnSet]
           /\ \A f \in Events : f # e => turn'[f] = turn[f]
           /\ turn'[e].end = turn[e].end /\ turn'[e].lease = turn[e].lease
           /\ turn'[e].state = state /\ ~turn'[e].live
<1>1. turn[e] \in TurnSet
  OBVIOUS
<1>2. /\ Ended(e, state) \in TurnSet
      /\ Ended(e, state).end = turn[e].end /\ Ended(e, state).lease = turn[e].lease
      /\ Ended(e, state).state = state /\ ~Ended(e, state).live
  BY <1>1 DEF Ended, TurnSet
<1>. QED BY <1>2

LEMMA CloseStep ==
    ASSUME IInv, NEW r \in Requests, Close(r)
    PROVE  IInv'
<1>. DEFINE e == req[r].event
<1>1. StoreOK /\ RequestsOK /\ e \in Events
  BY TwoParts, RequestFacts DEF Close
<1>2. PICK q \in RequestSet :
               /\ q.st = "over" /\ req' = [req EXCEPT ![r] = q] /\ req'[r] = q
               /\ q.result = "success" => req[r].result = "success" /\ q.event = req[r].event
  BY <1>1, OverRequest DEF Close
<1>3. Informed(r)'
  BY <1>2 DEF Informed
<1>4. UNCHANGED <<status, log, compaction>>
  BY DEF Close
<1>5. turn \in [Events -> TurnSet]
  BY <1>1 DEF StoreOK
<1>6. turn' \in [Events -> TurnSet] /\ Fading
  <2>1. CASE UNCHANGED turn
    BY <2>1, <1>5 DEF Fading
  <2>2. CASE turn[e].state = "pending" /\ turn' = [turn EXCEPT ![e] = Ended(e, "failed")]
    BY <2>2, <1>1, <1>5, EndedTurn DEF Fading
  <2>. QED BY <2>1, <2>2 DEF Close
<1>7. \A f \in Events : turn[f].state = "completed" => turn'[f].state = "completed"
  BY <1>6 DEF Fading
<1>8. StoreOK' /\ \A p \in Requests \ {r} : Informed(p)'
  <2>1. \A p \in Requests \ {r} : req'[p] = req[p]
    BY <1>1, <1>2 DEF RequestsOK
  <2>. QED BY <2>1, <1>4, <1>6, TurnsFade
<1>9. q.result = "success" /\ status' # "deleted" => turn'[q.event].state = "completed"
  BY <1>1, <1>2, <1>4, <1>7 DEF RequestsOK, SuccessIsStored
<1>10. q.result = "success" => q.event \in Events
  BY <1>1, <1>2
<1>11. RequestsOK'
  BY <1>1, <1>2, <1>3, <1>4, <1>7, <1>8, <1>9, <1>10, RequestMoves
<1>. QED BY <1>8, <1>11, TwoParts DEF IInv, StoreOK, RequestsOK, TypeOK, RowSet, TurnSet, RequestSet

LEMMA UpdateStep ==
    ASSUME IInv, Update
    PROVE  IInv'
<1>1. StoreOK /\ RequestsOK /\ UNCHANGED <<log, turn, compaction, req>>
  BY TwoParts DEF Update
<1>2. StoreOK'
  BY <1>1 DEF Update, StoreOK, Placed, Answered, Latest, AnswerFollowsInput, UnresolvedIsKept,
              Intact, Exact, Messages, InputOf
<1>3. \A p \in Requests : req[p].st \in {"ready", "asked"} => Informed(p)'
  BY <1>1, RequestFacts DEF Update, Busy, Informed, Holds
<1>4. RequestsOK'
  BY <1>1, <1>3, OnlyStoreMoves DEF Update
<1>. QED BY <1>2, <1>4, TwoParts DEF IInv, StoreOK, RequestsOK, TypeOK, RowSet, TurnSet, RequestSet

LEMMA DeleteStep ==
    ASSUME IInv, Delete
    PROVE  IInv'
<1>1. /\ RequestsOK /\ UNCHANGED req /\ status' = "deleted" /\ log' = <<>>
      /\ turn' = [e \in Events |-> NoTurn] /\ compaction' = Nothing
  BY TwoParts DEF Delete
<1>2. NoTurn \in TurnSet /\ NoTurn.state = "none" /\ ~NoTurn.live
  BY DEF NoTurn, TurnSet
<1>3. /\ \A e \in Events : turn'[e].state = "none" /\ ~turn'[e].live
      /\ turn' \in [Events -> TurnSet]
  BY <1>1, <1>2
<1>4. Len(log') = 0 /\ log' \in Seq(RowSet)
  BY <1>1
<1>5. /\ compaction' \in Compactions /\ compaction'.through = 0
      /\ compaction'.pins = {} /\ compaction'.short = {}
  BY <1>1 DEF Nothing, Compactions
<1>6. Placed' /\ Answered' /\ Latest'
  BY <1>3, <1>4, <1>5 DEF Placed, Answered, Latest
<1>7. AnswerFollowsInput' /\ UnresolvedIsKept'
  BY <1>3, <1>4 DEF AnswerFollowsInput, UnresolvedIsKept, Messages
<1>8. StoreOK'
  BY <1>1, <1>3, <1>4, <1>5, <1>6, <1>7 DEF StoreOK
<1>9. \A p \in Requests : req[p].st \in {"ready", "asked"} => Informed(p)'
  BY <1>1 DEF Informed, Holds
<1>10. RequestsOK'
  BY <1>1, <1>9, OnlyStoreMoves
<1>. QED BY <1>8, <1>10, TwoParts DEF IInv, StoreOK, RequestsOK, TypeOK, RowSet, TurnSet, RequestSet

----------------------------------------------------------------------------
(* Steps that add to the log *)

LEMMA LogGrows ==
    ASSUME log \in Seq(RowSet), NEW more \in Seq(RowSet), log' = log \o more
    PROVE  /\ log' \in Seq(RowSet) /\ Len(log) \in Nat /\ Len(more) \in Nat
           /\ Len(log') = Len(log) + Len(more)
           /\ \A s \in 1..Len(log) : log'[s] = log[s]
           /\ \A s \in 1..Len(log') : s \in 1..Len(log)
                  \/ (s - Len(log) \in 1..Len(more) /\ log'[s] = more[s - Len(log)])
<1>1. /\ log' \in Seq(RowSet) /\ Len(log) \in Nat /\ Len(more) \in Nat
      /\ Len(log') = Len(log) + Len(more)
  BY ConcatProperties
<1>2. \A s \in 1..Len(log') : log'[s] = IF s <= Len(log) THEN log[s] ELSE more[s - Len(log)]
  BY <1>1, ConcatProperties
<1>3. \A s \in 1..Len(log) : log'[s] = log[s]
  BY <1>1, <1>2
<1>4. ASSUME NEW s \in 1..Len(log'), s \notin 1..Len(log)
      PROVE  s - Len(log) \in 1..Len(more) /\ log'[s] = more[s - Len(log)]
  <2>1. s \in Nat /\ s > Len(log) /\ s <= Len(log) + Len(more)
    BY <1>1, <1>4
  <2>. QED BY <1>1, <1>2, <2>1
<1>5. \A s \in 1..Len(log') : s \in 1..Len(log)
          \/ (s - Len(log) \in 1..Len(more) /\ log'[s] = more[s - Len(log)])
  BY <1>4
<1>. QED BY <1>1, <1>3, <1>5

LEMMA AddCheckpointStep ==
    ASSUME IInv, AddCheckpoint
    PROVE  IInv'
<1>1. /\ StoreOK /\ RequestsOK /\ log \in Seq(RowSet)
      /\ UNCHANGED <<status, turn, compaction, req>>
  BY TwoParts DEF AddCheckpoint, StoreOK
<1>2. log' = log \o <<Row("checkpoint", None)>> /\ <<Row("checkpoint", None)>> \in Seq(RowSet)
      /\ Len(<<Row("checkpoint", None)>>) = 1
  BY <1>1 DEF AddCheckpoint, Row, RowSet
<1>3. /\ log' \in Seq(RowSet) /\ Len(log) \in Nat /\ Len(log') = Len(log) + 1
      /\ \A s \in 1..Len(log) : log'[s] = log[s]
  BY <1>1, <1>2, LogGrows
<1>4. log'[Len(log) + 1].kind = "checkpoint"
  BY <1>1 DEF AddCheckpoint, Row
<1>5. Messages' = Messages
  BY <1>3, <1>4 DEF Messages
<1>6. \A e \in Events : InputOf(e)' = InputOf(e)
  BY <1>1 DEF InputOf
<1>7. /\ compaction.through \in Nat
      /\ \A e \in Events : turn[e].end \in Nat
  BY <1>1 DEF StoreOK, TurnSet, Compactions
<1>8. Placed'
  <2>1. compaction'.through <= Len(log')
    BY <1>1, <1>3, <1>7 DEF StoreOK, Placed
  <2>2. ASSUME NEW e \in Events, turn[e].state # "none"
        PROVE  turn[e].end <= Len(log') /\ \A s \in InputOf(e) : log'[s].kind \in {"input", "result"}
    <3>1. turn[e].end <= Len(log) /\ \A s \in InputOf(e) : log[s].kind \in {"input", "result"}
      BY <1>1, <2>2 DEF StoreOK, Placed
    <3>2. InputOf(e) \subseteq 1..Len(log)
      BY <1>3, <1>7, <3>1 DEF InputOf
    <3>. QED BY <1>3, <1>7, <3>1, <3>2
  <2>3. \A s \in compaction.pins \cup compaction.short : s <= compaction.through
    BY <1>1 DEF StoreOK, Placed
  <2>. QED BY <1>1, <1>6, <2>1, <2>2, <2>3 DEF Placed
<1>9. Answered'
  BY <1>1, <1>3, <1>4 DEF StoreOK, Answered
<1>10. Latest' /\ UnresolvedIsKept'
  <2>1. Latest'
    BY <1>1, <1>5, <1>6 DEF StoreOK, Latest
  <2>2. ASSUME NEW e \in Events, turn[e].state \in {"pending", "failed"}, NEW s \in InputOf(e)
        PROVE  Intact(compaction, s)'
    <3>1. Intact(compaction, s)
      BY <1>1, <2>2 DEF StoreOK, UnresolvedIsKept
    <3>2. s \in 1..Len(log)
      BY <1>1, <1>3, <1>7, <2>2 DEF StoreOK, Placed, InputOf
    <3>. QED BY <1>1, <1>3, <3>1, <3>2 DEF Intact, Exact
  <2>3. UnresolvedIsKept'
    BY <1>1, <1>6, <2>2 DEF UnresolvedIsKept
  <2>. QED BY <2>1, <2>3
<1>11. AnswerFollowsInput'
  BY <1>1, <1>3, <1>5 DEF StoreOK, AnswerFollowsInput, Messages
<1>12. StoreOK'
  BY <1>1, <1>3, <1>8, <1>9, <1>10, <1>11 DEF StoreOK
<1>13. \A p \in Requests : Informed(p)'
  <2>1. SUFFICES ASSUME NEW p \in Requests PROVE Informed(p)'
    OBVIOUS
  <2>2. Informed(p)
    BY <1>1 DEF RequestsOK
  <2>. QED BY <1>1, <1>5, <2>2, StaysInformed DEF Unresolved, Holds
<1>14. RequestsOK'
  BY <1>1, <1>13, OnlyStoreMoves
<1>. QED BY <1>12, <1>14, TwoParts DEF IInv, StoreOK, RequestsOK, TypeOK, RowSet, TurnSet, RequestSet

\* What a claim does to the turns.
LEMMA ClaimedTurns ==
    ASSUME StoreOK, NEW r \in Requests, NEW e \in Events, Claim(r, e), Len(log') \in Nat
    PROVE  /\ turn' \in [Events -> TurnSet]
           /\ turn'[e].state = "pending" /\ turn'[e].lease = r
           /\ turn'[e].end = IF turn[e].state = "none" THEN Len(log') ELSE turn[e].end
           /\ \A f \in Events \ {e} :
                  /\ turn'[f].end = turn[f].end
                  /\ turn'[f].state = IF turn[f].state = "pending" THEN "failed" ELSE turn[f].state
                  /\ ~turn'[f].live
<1>1. turn \in [Events -> TurnSet] /\ \A f \in Events : turn[f] \in TurnSet
  BY DEF StoreOK
<1>2. ASSUME NEW f \in Events
      PROVE  /\ Ended(f, "failed") \in TurnSet /\ Ended(f, "failed").end = turn[f].end
             /\ Ended(f, "failed").state = "failed" /\ ~Ended(f, "failed").live
  BY <1>1 DEF Ended, TurnSet
<1>3. Swept \in [Events -> TurnSet]
  BY <1>1, <1>2 DEF Swept
<1>4. \A f \in Events : turn[f].live \in BOOLEAN /\ (turn[f].live => turn[f].state = "pending")
  BY <1>1 DEF StoreOK, TurnSet
<1>5. \A f \in Events : Swept[f] = IF turn[f].state = "pending" THEN Ended(f, "failed") ELSE turn[f]
  BY DEF Swept
<1>6. ASSUME NEW f \in Events
      PROVE  /\ Swept[f].end = turn[f].end /\ ~Swept[f].live
             /\ Swept[f].state = IF turn[f].state = "pending" THEN "failed" ELSE turn[f].state
  <2>1. CASE turn[f].state = "pending"
    BY <1>2, <1>5, <2>1
  <2>2. CASE turn[f].state # "pending"
    BY <1>4, <1>5, <2>2
  <2>. QED BY <2>1, <2>2
<1>. DEFINE end == IF turn[e].state = "none" THEN Len(log') ELSE turn[e].end
            claimed == [state |-> "pending", lease |-> r, live |-> TRUE, end |-> end]
<1>7. end \in Nat
  BY <1>1 DEF TurnSet
<1>8. claimed \in TurnSet
  BY <1>7 DEF TurnSet
<1>9. turn' = [Swept EXCEPT ![e] = claimed]
  BY <1>3, <1>6 DEF Claim
<1>10. turn'[e] = claimed /\ \A f \in Events \ {e} : turn'[f] = Swept[f]
  BY <1>3, <1>9
<1>. HIDE DEF end
<1>11. turn'[e].state = "pending" /\ turn'[e].lease = r /\ turn'[e].end = end
  BY <1>10
<1>. HIDE DEF claimed
<1>12. turn' \in [Events -> TurnSet]
  BY <1>3, <1>8, <1>9
<1>. QED BY <1>6, <1>10, <1>11, <1>12 DEF end

LEMMA ClaimStep ==
    ASSUME IInv, NEW r \in Requests, NEW e \in Events, Claim(r, e)
    PROVE  IInv'
<1>1. /\ StoreOK /\ RequestsOK /\ UNCHANGED <<status, compaction>>
      /\ req \in [Requests -> RequestSet] /\ log \in Seq(RowSet) /\ ~Busy
      /\ status = "active"
  BY TwoParts DEF Claim, StoreOK, RequestsOK
<1>0. PICK n : log' = IF turn[e].state = "none" THEN log \o Input(e, n) ELSE log
  BY DEF Claim
<1>. DEFINE isNew == turn[e].state = "none"
            input == Input(e, n)
            more == IF isNew THEN input ELSE <<>>
<1>2. /\ input \in Seq(RowSet) /\ Len(input) = InputRows
      /\ \A k \in 1..InputRows : input[k].kind \in {"input", "result"}
  BY SizeAssumption DEF Input, Row, RowSet
<1>3. log' = log \o more
  <2>1. CASE isNew
    BY <1>0, <2>1
  <2>2. CASE ~isNew
    BY <1>0, <1>1, <2>2, ConcatEmptySeq
  <2>. QED BY <2>1, <2>2
<1>4. more \in Seq(RowSet) /\ Len(more) = (IF isNew THEN InputRows ELSE 0)
      /\ \A k \in 1..Len(more) : more[k].kind \in {"input", "result"}
  <2>1. CASE isNew
    BY <1>2, <2>1
  <2>2. CASE ~isNew
    BY <2>2
  <2>. QED BY <2>1, <2>2
<1>. HIDE DEF more, input
<1>5. /\ log' \in Seq(RowSet) /\ Len(log) \in Nat
      /\ Len(log') = (IF isNew THEN Len(log) + InputRows ELSE Len(log))
      /\ \A s \in 1..Len(log) : log'[s] = log[s]
      /\ \A s \in 1..Len(log') : s \in 1..Len(log) \/ (isNew /\ log'[s].kind \in {"input", "result"})
  <2>1. /\ log' \in Seq(RowSet) /\ Len(log) \in Nat
        /\ Len(log') = Len(log) + Len(more)
        /\ \A s \in 1..Len(log) : log'[s] = log[s]
        /\ \A s \in 1..Len(log') : s \in 1..Len(log)
               \/ (s - Len(log) \in 1..Len(more) /\ log'[s] = more[s - Len(log)])
    BY <1>1, <1>3, <1>4, LogGrows
  <2>2. Len(log') = (IF isNew THEN Len(log) + InputRows ELSE Len(log))
    BY <1>4, <2>1
  <2>3. ASSUME NEW s \in 1..Len(log'), s \notin 1..Len(log)
        PROVE  isNew /\ log'[s].kind \in {"input", "result"}
    <3>1. s - Len(log) \in 1..Len(more) /\ log'[s] = more[s - Len(log)]
      BY <2>1, <2>3
    <3>2. isNew
      BY <1>4, <3>1
    <3>. QED BY <1>4, <3>1, <3>2
  <2>4. \A s \in 1..Len(log') : s \in 1..Len(log) \/ (isNew /\ log'[s].kind \in {"input", "result"})
    BY <2>3
  <2>. QED BY <2>1, <2>2, <2>4
<1>6. Len(log') \in Nat /\ Len(log) <= Len(log')
  BY <1>5, SizeAssumption
<1>7. /\ turn' \in [Events -> TurnSet]
      /\ turn'[e].state = "pending" /\ turn'[e].lease = r
      /\ turn'[e].end = IF turn[e].state = "none" THEN Len(log') ELSE turn[e].end
      /\ \A f \in Events \ {e} :
             /\ turn'[f].end = turn[f].end
             /\ turn'[f].state = IF turn[f].state = "pending" THEN "failed" ELSE turn[f].state
             /\ ~turn'[f].live
  BY <1>1, <1>6, ClaimedTurns
<1>8. \A f \in Events : turn[f].end \in Nat /\ turn'[f].end \in Nat
  BY <1>1, <1>7 DEF StoreOK, TurnSet
<1>9. compaction.through \in Nat /\ compaction.through <= Len(log)
  BY <1>1 DEF StoreOK, Placed, Compactions
<1>10. isNew \/ (turn[e].state # "completed" /\ \A s \in Messages : ~(s > turn[e].end))
  BY DEF Claim, MayRetry, Newer
<1>11. /\ \A f \in Events : turn'[f].live => turn'[f].state = "pending"
       /\ \A f, g \in Events : turn'[f].state = "pending" /\ turn'[g].state = "pending" => f = g
  BY <1>7
<1>12. \A s \in Messages' : s \in Messages \/ (isNew /\ s \in 1..Len(log') /\ log'[s].kind \in {"input", "result"})
  BY <1>5 DEF Messages
<1>13. Placed'
  <2>1. compaction'.through <= Len(log')
    BY <1>1, <1>6, <1>9, <1>5
  <2>2. ASSUME NEW f \in Events, turn'[f].state # "none"
        PROVE  turn'[f].end <= Len(log') /\ \A s \in InputOf(f)' : log'[s].kind \in {"input", "result"}
    <3>1. CASE f = e /\ isNew
      <4>1. turn'[f].end = Len(log') /\ Len(log') = Len(log) + InputRows
        BY <1>5, <1>7, <3>1
      <4>2. ASSUME NEW s \in InputOf(f)'
            PROVE  log'[s].kind \in {"input", "result"}
        <5>1. s \in 1..Len(log') /\ s + InputRows > Len(log) + InputRows
          BY <4>1, <4>2 DEF InputOf
        <5>2. s \notin 1..Len(log)
          BY <1>5, <5>1, SizeAssumption
        <5>. QED BY <1>5, <5>1, <5>2
      <4>. QED BY <1>6, <4>1, <4>2
    <3>2. CASE ~(f = e /\ isNew)
      <4>1. turn'[f].end = turn[f].end /\ turn[f].state # "none"
        BY <1>7, <2>2, <3>2
      <4>2. turn[f].end <= Len(log) /\ \A s \in InputOf(f) : log[s].kind \in {"input", "result"}
        BY <1>1, <4>1 DEF StoreOK, Placed
      <4>3. InputOf(f)' = InputOf(f) /\ InputOf(f) \subseteq 1..Len(log)
        BY <1>5, <1>8, <4>1, <4>2 DEF InputOf
      <4>. QED BY <1>5, <1>6, <1>8, <4>1, <4>2, <4>3
    <3>. QED BY <3>1, <3>2
  <2>3. \A s \in compaction'.pins \cup compaction'.short : s <= compaction'.through
    BY <1>1 DEF StoreOK, Placed
  <2>. QED BY <2>1, <2>2, <2>3 DEF Placed
<1>14. Answered'
  <2>1. SUFFICES ASSUME NEW s \in 1..Len(log'), log'[s].kind = "answer"
                 PROVE  log'[s].event \in Events /\ turn'[log'[s].event].state = "completed"
    BY DEF Answered
  <2>2. s \in 1..Len(log) /\ log'[s] = log[s]
    BY <1>5, <2>1
  <2>3. log[s].event \in Events /\ turn[log[s].event].state = "completed"
    BY <1>1, <2>1, <2>2 DEF StoreOK, Answered
  <2>4. log[s].event # e
    BY <1>10, <2>3
  <2>. QED BY <1>7, <2>2, <2>3, <2>4
<1>15. Latest'
  <2>1. SUFFICES ASSUME NEW f \in Events, turn'[f].live, NEW s \in Messages'
                 PROVE  s <= turn'[f].end
    BY DEF Latest
  <2>2. f = e
    BY <1>7, <2>1
  <2>3. CASE isNew
    BY <1>7, <2>2, <2>3 DEF Messages
  <2>4. CASE ~isNew
    <3>1. s \in Messages /\ s \in Nat /\ ~(s > turn[e].end)
      BY <1>10, <1>12, <2>4 DEF Messages
    <3>. QED BY <1>7, <1>8, <2>2, <2>4, <3>1
  <2>. QED BY <2>3, <2>4
<1>16. AnswerFollowsInput'
  <2>1. SUFFICES ASSUME NEW s \in Messages', log'[s].kind = "answer"
                 PROVE  /\ turn'[log'[s].event].end < s
                        /\ \A t \in Messages' : t < s => t <= turn'[log'[s].event].end
    BY DEF AnswerFollowsInput
  <2>2. s \in 1..Len(log) /\ log'[s] = log[s] /\ s \in Messages
    BY <1>5, <2>1 DEF Messages
  <2>3. log[s].event \in Events /\ turn[log[s].event].state = "completed"
    BY <1>1, <2>1, <2>2 DEF StoreOK, Answered
  <2>4. log[s].event # e /\ turn'[log[s].event].end = turn[log[s].event].end
    BY <1>7, <1>10, <2>3
  <2>5. /\ turn[log[s].event].end < s
        /\ \A t \in Messages : t < s => t <= turn[log[s].event].end
    BY <1>1, <2>1, <2>2 DEF StoreOK, AnswerFollowsInput
  <2>6. ASSUME NEW t \in Messages', t < s
        PROVE  t \in Messages
    <3>1. t \in 1..Len(log)
      BY <1>5, <2>2, <2>6 DEF Messages
    <3>. QED BY <1>5, <2>6, <3>1 DEF Messages
  <2>. QED BY <2>2, <2>4, <2>5, <2>6
<1>17. UnresolvedIsKept'
  <2>1. SUFFICES ASSUME NEW f \in Events, turn'[f].state \in {"pending", "failed"},
                        NEW s \in InputOf(f)'
                 PROVE  Intact(compaction, s)'
    BY DEF UnresolvedIsKept
  <2>2. CASE f = e /\ isNew
    <3>1. s \in Nat /\ s + InputRows > Len(log) + InputRows
      BY <1>5, <1>7, <2>2 DEF InputOf
    <3>2. s > compaction.through
      BY <1>5, <1>9, <3>1, SizeAssumption
    <3>. QED BY <1>1, <3>2 DEF Intact, Exact
  <2>3. CASE ~(f = e /\ isNew)
    <3>1. turn'[f].end = turn[f].end
      BY <1>7, <2>3
    <3>2. turn[f].state \in {"pending", "failed"}
      <4>1. turn[f] \in TurnSet
        BY <1>1 DEF StoreOK
      <4>. QED BY <1>7, <1>10, <2>1, <2>3, <4>1 DEF TurnSet
    <3>3. s \in InputOf(f)
      BY <3>1 DEF InputOf
    <3>4. Intact(compaction, s)
      BY <1>1, <3>2, <3>3 DEF StoreOK, UnresolvedIsKept
    <3>5. s \in 1..Len(log)
      <4>1. turn[f].end <= Len(log) /\ turn[f].end \in Nat
        BY <1>1, <3>2 DEF StoreOK, Placed, TurnSet
      <4>. QED BY <1>5, <3>3, <4>1 DEF InputOf
    <3>. QED BY <1>1, <1>5, <3>4, <3>5 DEF Intact, Exact
  <2>. QED BY <2>2, <2>3
<1>18. StoreOK'
  BY <1>1, <1>5, <1>7, <1>11, <1>13, <1>14, <1>15, <1>16, <1>17 DEF StoreOK
<1>19. PICK q \in RequestSet : /\ q.st \in {"claimed", "over"} /\ q.result # "success"
                               /\ q.st = "claimed" => q.event \in Events
                               /\ req' = [req EXCEPT ![r] = q] /\ req'[r] = q
  <2>. DEFINE fresh == [Fresh EXCEPT !.st = "claimed", !.event = e]
  <2>1. CASE req' = [req EXCEPT ![r] = fresh]
    <3>1. fresh \in RequestSet /\ fresh.st = "claimed" /\ fresh.result = "none" /\ fresh.event = e
      BY DEF Fresh, Nothing, Compactions, RequestSet
    <3>. HIDE DEF fresh
    <3>. QED BY <1>1, <2>1, <3>1
  <2>2. CASE req' = [req EXCEPT ![r] = Failed]
    <3>1. Failed \in RequestSet /\ Failed.st = "over" /\ Failed.result = "error"
      BY <1>1, RequestFacts DEF Failed, Fresh
    <3>. QED BY <1>1, <2>2, <3>1
  <2>. QED BY <2>1, <2>2 DEF Claim
<1>20. Informed(r)'
  BY <1>19 DEF Informed
<1>21. \A p \in Requests \ {r} : req[p].st \in {"ready", "asked"} => Informed(p)'
  <2>1. SUFFICES ASSUME NEW p \in Requests \ {r}, req[p].st \in {"ready", "asked"}
                 PROVE  ~Holds(p)'
    BY DEF Informed
  <2>2. req'[p] = req[p] /\ req[p].event \in Events
    BY <1>1, <1>19, <2>1, RequestFacts
  <2>3. CASE req[p].event = e
    BY <1>7, <2>2, <2>3 DEF Holds
  <2>4. CASE req[p].event # e
    BY <1>7, <2>2, <2>4 DEF Holds
  <2>. QED BY <2>3, <2>4
<1>22. \A f \in Events : turn[f].state = "completed" => turn'[f].state = "completed"
  BY <1>7, <1>10
<1>23. RequestsOK'
  BY <1>1, <1>19, <1>20, <1>21, <1>22, RequestMoves
<1>. QED BY <1>18, <1>23, TwoParts DEF IInv, StoreOK, RequestsOK, TypeOK, RowSet, TurnSet, RequestSet

\* The answer is the one new message; what may follow it is a checkpoint.
LEMMA AnswerInLog ==
    ASSUME log \in Seq(RowSet), NEW e \in Events, FinishTurn(e)
    PROVE  /\ log' \in Seq(RowSet) /\ Len(log) \in Nat /\ Len(log') \in Nat
           /\ Len(log) < Len(log')
           /\ \A s \in 1..Len(log) : log'[s] = log[s]
           /\ log'[Len(log) + 1] = Row("answer", e)
           /\ \A s \in 1..Len(log') : s \in 1..Len(log) \/ s = Len(log) + 1
                                      \/ log'[s].kind = "checkpoint"
<1>1. PICK checkpoint \in {<<>>, <<Row("checkpoint", e)>>} :
          log' = log \o <<Row("answer", e)>> \o checkpoint
  BY DEF FinishTurn
<1>. DEFINE more == <<Row("answer", e)>> \o checkpoint
<1>2. /\ more \in Seq(RowSet) /\ Len(more) \in {1, 2} /\ more[1] = Row("answer", e)
      /\ Len(more) = 2 => more[2].kind = "checkpoint"
  <2>1. Row("answer", e) \in RowSet /\ Row("checkpoint", e) \in RowSet
        /\ Row("checkpoint", e).kind = "checkpoint"
    BY DEF Row, RowSet
  <2>2. CASE checkpoint = <<>>
    <3>1. more = <<Row("answer", e)>>
      BY <2>1, <2>2, ShortSequences
    <3>. HIDE DEF more
    <3>2. more \in Seq(RowSet) /\ Len(more) = 1 /\ more[1] = Row("answer", e)
      BY <2>1, <3>1, ShortSequences
    <3>. QED BY <3>2
  <2>3. CASE checkpoint = <<Row("checkpoint", e)>>
    <3>1. more = <<Row("answer", e), Row("checkpoint", e)>>
      BY <2>1, <2>3, ShortSequences
    <3>. HIDE DEF more
    <3>2. /\ more \in Seq(RowSet) /\ Len(more) = 2 /\ more[1] = Row("answer", e)
          /\ more[2] = Row("checkpoint", e)
      BY <2>1, <3>1, ShortSequences
    <3>. QED BY <2>1, <3>2
  <2>. QED BY <1>1, <2>2, <2>3
<1>3. <<Row("answer", e)>> \in Seq(RowSet) /\ checkpoint \in Seq(RowSet)
  <2>1. Row("answer", e) \in RowSet /\ Row("checkpoint", e) \in RowSet
    BY DEF Row, RowSet
  <2>2. /\ <<>> \in Seq(RowSet) /\ <<Row("answer", e)>> \in Seq(RowSet)
        /\ <<Row("checkpoint", e)>> \in Seq(RowSet)
    BY <2>1, ShortSequences
  <2>. QED BY <1>1, <2>2
<1>4. log' = log \o more
  BY <1>1, <1>3, ConcatAssociative
<1>. HIDE DEF more
<1>5. /\ log' \in Seq(RowSet) /\ Len(log) \in Nat /\ Len(more) \in Nat
      /\ Len(log') = Len(log) + Len(more)
      /\ \A s \in 1..Len(log) : log'[s] = log[s]
      /\ \A s \in 1..Len(log') : s \in 1..Len(log)
             \/ (s - Len(log) \in 1..Len(more) /\ log'[s] = more[s - Len(log)])
  BY <1>2, <1>4, LogGrows
<1>6. Len(log') \in Nat /\ Len(log) < Len(log')
  BY <1>2, <1>5
<1>7. log'[Len(log) + 1] = Row("answer", e)
  <2>1. Len(log) + 1 \in 1..Len(log') /\ Len(log) + 1 \notin 1..Len(log)
    BY <1>5, <1>6
  <2>2. log'[Len(log) + 1] = more[(Len(log) + 1) - Len(log)]
    BY <1>5, <2>1
  <2>3. (Len(log) + 1) - Len(log) = 1
    BY <1>5
  <2>. QED BY <1>2, <2>2, <2>3
<1>8. ASSUME NEW s \in 1..Len(log'), s \notin 1..Len(log), s # Len(log) + 1
      PROVE  log'[s].kind = "checkpoint"
  <2>1. s - Len(log) \in 1..Len(more) /\ log'[s] = more[s - Len(log)]
    BY <1>5, <1>8
  <2>. DEFINE k == s - Len(log)
  <2>2. k # 1 /\ k \in 1..Len(more)
    BY <1>5, <1>8, <2>1
  <2>. HIDE DEF k
  <2>3. k = 2 /\ Len(more) = 2
    <3>1. CASE Len(more) = 1
      BY <2>2, <3>1
    <3>2. CASE Len(more) = 2
      BY <2>2, <3>2
    <3>. QED BY <1>2, <3>1, <3>2
  <2>. QED BY <1>2, <2>1, <2>3 DEF k
<1>9. \A s \in 1..Len(log') : s \in 1..Len(log) \/ s = Len(log) + 1
                              \/ log'[s].kind = "checkpoint"
  BY <1>8
<1>. QED BY <1>5, <1>6, <1>7, <1>9

LEMMA CommitStep ==
    ASSUME IInv, NEW r \in Requests, Commit(r)
    PROVE  IInv'
<1>. DEFINE e == req[r].event
<1>1. /\ StoreOK /\ RequestsOK /\ UNCHANGED <<status, compaction>> /\ e \in Events
      /\ log \in Seq(RowSet) /\ turn \in [Events -> TurnSet]
      /\ FinishTurn(e) /\ turn[e].live /\ turn[e].lease = r
  BY TwoParts, RequestFacts DEF Commit, Holds, StoreOK
<1>. HIDE DEF e
<1>2. /\ log' \in Seq(RowSet) /\ Len(log) \in Nat /\ Len(log') \in Nat
      /\ Len(log) < Len(log')
      /\ \A s \in 1..Len(log) : log'[s] = log[s]
      /\ log'[Len(log) + 1] = Row("answer", e)
      /\ \A s \in 1..Len(log') : s \in 1..Len(log) \/ s = Len(log) + 1
                                 \/ log'[s].kind = "checkpoint"
  BY <1>1, AnswerInLog
<1>3. turn' = [turn EXCEPT ![e] = Ended(e, "completed")]
  BY <1>1 DEF FinishTurn
<1>4. /\ turn' \in [Events -> TurnSet]
      /\ \A f \in Events : f # e => turn'[f] = turn[f]
      /\ turn'[e].end = turn[e].end /\ turn'[e].lease = turn[e].lease
      /\ turn'[e].state = "completed" /\ ~turn'[e].live
  BY <1>1, <1>3, EndedTurn
<1>5. \A f \in Events : turn[f].end \in Nat /\ turn'[f].end = turn[f].end
  BY <1>1, <1>4 DEF TurnSet
<1>6. turn[e].state = "pending" /\ \A f \in Events : turn[f].state = "pending" => f = e
  BY <1>1 DEF StoreOK
<1>7. \A f \in Events : ~turn'[f].live /\ turn'[f].state # "pending"
  BY <1>1, <1>4, <1>6 DEF StoreOK
<1>8. \A f \in Events : InputOf(f)' = InputOf(f)
  BY <1>5 DEF InputOf
<1>9. log'[Len(log) + 1].kind = "answer" /\ log'[Len(log) + 1].event = e
  BY <1>2 DEF Row
<1>10. \A s \in Messages' : (s \in Messages /\ s \in 1..Len(log)) \/ s = Len(log) + 1
  BY <1>2 DEF Messages
<1>11. Messages \subseteq 1..Len(log)
  BY DEF Messages
<1>12. Placed'
  <2>1. compaction'.through <= Len(log')
    <3>1. compaction.through \in Nat /\ compaction.through <= Len(log)
      BY <1>1 DEF StoreOK, Placed, Compactions
    <3>. QED BY <1>1, <1>2, <3>1
  <2>2. ASSUME NEW f \in Events, turn'[f].state # "none"
        PROVE  turn'[f].end <= Len(log') /\ \A s \in InputOf(f)' : log'[s].kind \in {"input", "result"}
    <3>1. turn[f].state # "none"
      BY <1>4, <1>6, <2>2
    <3>2. turn[f].end <= Len(log) /\ \A s \in InputOf(f) : log[s].kind \in {"input", "result"}
      BY <1>1, <3>1 DEF StoreOK, Placed
    <3>3. InputOf(f) \subseteq 1..Len(log)
      BY <1>2, <1>5, <3>2 DEF InputOf
    <3>. QED BY <1>2, <1>5, <1>8, <3>2, <3>3
  <2>3. \A s \in compaction'.pins \cup compaction'.short : s <= compaction'.through
    BY <1>1 DEF StoreOK, Placed
  <2>. QED BY <2>1, <2>2, <2>3 DEF Placed
<1>13. Answered'
  <2>1. SUFFICES ASSUME NEW s \in 1..Len(log'), log'[s].kind = "answer"
                 PROVE  log'[s].event \in Events /\ turn'[log'[s].event].state = "completed"
    BY DEF Answered
  <2>2. CASE s \in 1..Len(log)
    <3>1. log[s].event \in Events /\ turn[log[s].event].state = "completed" /\ log'[s] = log[s]
      BY <1>1, <1>2, <2>1, <2>2 DEF StoreOK, Answered
    <3>. QED BY <1>4, <3>1
  <2>3. CASE s = Len(log) + 1
    BY <1>1, <1>4, <1>9, <2>3
  <2>. QED BY <1>2, <2>1, <2>2, <2>3
<1>14. Latest'
  BY <1>7 DEF Latest
<1>15. AnswerFollowsInput'
  <2>1. SUFFICES ASSUME NEW s \in Messages', log'[s].kind = "answer"
                 PROVE  /\ turn'[log'[s].event].end < s
                        /\ \A t \in Messages' : t < s => t <= turn'[log'[s].event].end
    BY DEF AnswerFollowsInput
  <2>2. CASE s \in Messages /\ s \in 1..Len(log)
    <3>1. log'[s] = log[s] /\ log[s].event \in Events
      BY <1>1, <1>2, <2>1, <2>2 DEF StoreOK, Answered
    <3>2. /\ turn[log[s].event].end < s
          /\ \A t \in Messages : t < s => t <= turn[log[s].event].end
      BY <1>1, <2>1, <2>2, <3>1 DEF StoreOK, AnswerFollowsInput
    <3>3. \A t \in Messages' : t < s => t \in Messages
      BY <1>2, <1>10, <2>2
    <3>. QED BY <1>5, <3>1, <3>2, <3>3
  <2>3. CASE s = Len(log) + 1
    <3>1. log'[s].event = e /\ turn'[e].end = turn[e].end /\ turn[e].end \in Nat
      BY <1>1, <1>5, <1>9, <2>3
    <3>2. turn[e].end <= Len(log)
      BY <1>1, <1>6 DEF StoreOK, Placed
    <3>3. \A t \in Messages : t <= turn[e].end
      BY <1>1 DEF StoreOK, Latest
    <3>4. \A t \in Messages' : t < s => t \in Messages
      BY <1>2, <1>10, <2>3
    <3>. QED BY <1>2, <2>3, <3>1, <3>2, <3>3, <3>4
  <2>. QED BY <1>10, <2>2, <2>3
<1>16. UnresolvedIsKept'
  <2>1. \A f \in Events : turn'[f].state \in {"pending", "failed"} =>
            turn[f].state \in {"pending", "failed"}
    BY <1>4, <1>6
  <2>2. ASSUME NEW f \in Events, turn'[f].state \in {"pending", "failed"}, NEW s \in InputOf(f)
        PROVE  Intact(compaction, s)'
    <3>1. Intact(compaction, s)
      BY <1>1, <2>1, <2>2 DEF StoreOK, UnresolvedIsKept
    <3>2. s \in 1..Len(log)
      <4>1. turn[f].end <= Len(log) /\ turn[f].end \in Nat
        BY <1>1, <2>1, <2>2 DEF StoreOK, Placed, TurnSet
      <4>. QED BY <1>2, <2>2, <4>1 DEF InputOf
    <3>. QED BY <1>1, <1>2, <3>1, <3>2 DEF Intact, Exact
  <2>. QED BY <1>8, <2>2 DEF UnresolvedIsKept
<1>17. StoreOK'
  BY <1>1, <1>2, <1>4, <1>7, <1>12, <1>13, <1>14, <1>15, <1>16 DEF StoreOK
<1>18. PICK q \in RequestSet : /\ q.st = "closing" /\ q.event = req[r].event
                               /\ req' = [req EXCEPT ![r] = q] /\ req'[r] = q
  <2>1. PICK result \in {"success", "error"} : Closing(r, result)
    BY DEF Commit
  <2>. QED BY <1>1, <2>1, ClosingRequest DEF e
<1>19. Informed(r)'
  BY <1>18 DEF Informed
<1>20. \A p \in Requests \ {r} : req[p].st \in {"ready", "asked"} => Informed(p)'
  <2>1. SUFFICES ASSUME NEW p \in Requests \ {r}, req[p].st \in {"ready", "asked"}
                 PROVE  ~Holds(p)'
    BY DEF Informed
  <2>2. req'[p] = req[p] /\ req[p].event \in Events
    BY <1>1, <1>18, <2>1, RequestFacts DEF RequestsOK
  <2>. QED BY <1>7, <2>2 DEF Holds
<1>21. \A f \in Events : turn[f].state = "completed" => turn'[f].state = "completed"
  BY <1>4
<1>22. q.event \in Events /\ turn'[q.event].state = "completed"
  BY <1>1, <1>4, <1>18 DEF e
<1>23. RequestsOK'
  BY <1>1, <1>18, <1>19, <1>20, <1>21, <1>22, RequestMoves
<1>. QED BY <1>17, <1>23, TwoParts DEF IInv, StoreOK, RequestsOK, TypeOK, RowSet, TurnSet, RequestSet

----------------------------------------------------------------------------
(* Compaction *)

\* The last row that a compaction reaches, what it pins and what it cuts short.
LEMMA ProjectionReaches ==
    ASSUME StoreOK, NEW r \in Requests, req[r] \in RequestSet,
           req[r].known = compaction, NEW s \in Messages, NEW cut \in SUBSET Reducible(r, s)
    PROVE  LET p == Projection(r, s, cut)
           IN  /\ p \in Compactions
               /\ p.through <= Len(log)
               /\ p.through = compaction.through \/ p.through \in Before(r, s)
               /\ \A t \in Before(r, s) \cup {compaction.through} : t <= p.through
               /\ compaction.pins \subseteq p.pins
               /\ Before(r, s) \cap req[r].protected \subseteq p.pins
               /\ p.pins \subseteq compaction.pins \cup Before(r, s)
               /\ p.short = compaction.short \cup cut
               /\ \A t \in cut : /\ t \in p.pins /\ t \notin req[r].protected
                                 /\ ReduceResults /\ log[t].kind = "result"
<1>. DEFINE p == Projection(r, s, cut)
            ends == Before(r, s) \cup {compaction.through}
<1>1. /\ compaction \in Compactions /\ compaction.through <= Len(log)
      /\ Len(log) \in Nat
  BY DEF StoreOK, Placed
<1>2. Before(r, s) \subseteq 1..Len(log)
  BY DEF Before, Rows, Messages
<1>3. ends \in SUBSET Nat /\ ends # {} /\ \A t \in ends : t <= Len(log)
  BY <1>1, <1>2 DEF Compactions
<1>. HIDE DEF ends
<1>4. \E t \in ends : \A u \in ends : u <= t
  BY <1>1, <1>3, GreatestElement
<1>. DEFINE last == CHOOSE t \in ends : \A u \in ends : u <= t
<1>5. last \in ends /\ \A u \in ends : u <= last
  BY <1>4
<1>. HIDE DEF last
<1>6. p = [through |-> last, pins |-> compaction.pins \cup Pinned(r, s),
           short |-> compaction.short \cup cut]
  BY DEF Projection, last, ends
<1>7. /\ Pinned(r, s) \subseteq Before(r, s)
      /\ Before(r, s) \cap req[r].protected \subseteq Pinned(r, s)
  BY DEF Pinned, Results
<1>8. last \in Nat /\ last <= Len(log)
  BY <1>3, <1>5
<1>9. last = compaction.through \/ last \in Before(r, s)
  BY <1>5 DEF ends
<1>10. \A t \in cut : /\ t \in compaction.pins \cup Pinned(r, s) /\ t \notin req[r].protected
                      /\ ReduceResults /\ log[t].kind = "result"
  BY DEF Reducible, Results
<1>11. p \in Compactions
  <2>1. compaction.pins \cup Pinned(r, s) \in SUBSET Nat
    BY <1>1, <1>2, <1>7 DEF Compactions
  <2>2. compaction.short \cup cut \in SUBSET Nat
    BY <1>1, <1>10, <2>1 DEF Compactions
  <2>. QED BY <1>6, <1>8, <2>1, <2>2 DEF Compactions
<1>12. \A t \in Before(r, s) \cup {compaction.through} : t <= last
  BY <1>5 DEF ends
<1>. HIDE DEF p
<1>13. p.through = last /\ p.pins = compaction.pins \cup Pinned(r, s)
       /\ p.short = compaction.short \cup cut
  BY <1>6
<1>. QED BY <1>7, <1>8, <1>9, <1>10, <1>11, <1>12, <1>13 DEF p

LEMMA CompactStep ==
    ASSUME IInv, NEW r \in Requests, Compact(r)
    PROVE  IInv'
<1>. DEFINE e == req[r].event
<1>1. /\ StoreOK /\ RequestsOK /\ UNCHANGED <<status, log, turn>> /\ e \in Events
      /\ req \in [Requests -> RequestSet] /\ req[r] \in RequestSet
      /\ req[r].st = "ready" /\ Holds(r) /\ Informed(r)
  BY TwoParts, RequestFacts DEF Compact, RequestsOK
<1>2. /\ \A t \in Messages : t <= req[r].upto
      /\ req[r].known = compaction
      /\ \A f \in Unresolved : \A t \in InputOf(f) :
             t > compaction.through => t \in req[r].protected
      /\ req[r].protected \cap compaction.short = {}
  BY <1>1 DEF Informed
<1>. DEFINE Taken(s, c) ==
                /\ Projection(r, s, c).through >= compaction.through
                /\ compaction' = Projection(r, s, c)
                /\ \/ req' = [req EXCEPT ![r].st = "asked", ![r].known = Projection(r, s, c)]
                   \/ Closing(r, "error")
<1>30. PICK s \in Rows(r) : \E c \in SUBSET Reducible(r, s) : Taken(s, c)
  BY DEF Compact
<1>3. PICK cut \in SUBSET Reducible(r, s) : Taken(s, cut)
  BY <1>30
<1>. DEFINE p == Projection(r, s, cut)
<1>4. s \in Messages /\ s \in Nat
  BY DEF Rows, Messages
<1>5. /\ p \in Compactions
      /\ p.through <= Len(log)
      /\ p.through = compaction.through \/ p.through \in Before(r, s)
      /\ \A t \in Before(r, s) \cup {compaction.through} : t <= p.through
      /\ compaction.pins \subseteq p.pins
      /\ Before(r, s) \cap req[r].protected \subseteq p.pins
      /\ p.pins \subseteq compaction.pins \cup Before(r, s)
      /\ p.short = compaction.short \cup cut
      /\ \A t \in cut : /\ t \in p.pins /\ t \notin req[r].protected
                        /\ ReduceResults /\ log[t].kind = "result"
  BY <1>1, <1>2, <1>4, ProjectionReaches
<1>. HIDE DEF p
<1>6. compaction' = p /\ compaction.through <= p.through /\ compaction.through \in Nat /\ p.through \in Nat
  BY <1>1, <1>3, <1>5 DEF p, StoreOK, Compactions
<1>7. Messages' = Messages /\ \A f \in Events : InputOf(f)' = InputOf(f)
  BY <1>1 DEF Messages, InputOf
<1>8. Placed' /\ Answered' /\ Latest' /\ AnswerFollowsInput'
  <2>1. \A t \in p.pins : t <= p.through
    <3>1. \A t \in compaction.pins : t \in Nat /\ t <= compaction.through
      BY <1>1 DEF StoreOK, Placed, Compactions
    <3>. QED BY <1>5, <1>6, <3>1
  <2>2. \A t \in p.short : t <= p.through
    <3>1. \A t \in compaction.short : t \in Nat /\ t <= compaction.through
      BY <1>1 DEF StoreOK, Placed, Compactions
    <3>. QED BY <1>5, <1>6, <2>1, <3>1
  <2>3. Placed'
    BY <1>1, <1>5, <1>6, <1>7, <2>1, <2>2 DEF StoreOK, Placed
  <2>. QED BY <1>1, <1>7, <2>3 DEF StoreOK, Answered, Latest, AnswerFollowsInput
<1>9. UnresolvedIsKept'
  <2>1. SUFFICES ASSUME NEW f \in Events, turn[f].state \in {"pending", "failed"},
                        NEW t \in InputOf(f), ~(t > p.through)
                 PROVE  Intact(p, t)
    BY <1>1, <1>6, <1>7 DEF UnresolvedIsKept, Intact, Exact
  <2>2. t \in Messages /\ t \in Nat
    <3>1. turn[f].end <= Len(log) /\ turn[f].end \in Nat /\ log[t].kind \in {"input", "result"}
      BY <1>1, <2>1 DEF StoreOK, Placed, TurnSet
    <3>. QED BY <1>1, <2>1, <3>1 DEF InputOf, Messages
  <2>3. CASE t > compaction.through
    <3>1. t \in req[r].protected
      BY <1>2, <2>1, <2>3 DEF Unresolved
    <3>2. p.through \in Before(r, s) /\ p.through < s
      BY <1>5, <1>6, <2>1, <2>2, <2>3 DEF Before
    <3>3. t \in Rows(r)
      BY <1>2, <2>2, <2>3, <1>6 DEF Rows
    <3>4. t < s
      BY <1>4, <1>6, <2>1, <2>2, <3>2
    <3>5. t \in p.pins
      BY <1>5, <3>1, <3>3, <3>4 DEF Before
    <3>6. t \notin p.short
      BY <1>2, <1>5, <3>1
    <3>. QED BY <3>5, <3>6 DEF Intact, Exact
  <2>4. CASE ~(t > compaction.through)
    <3>1. /\ t \in compaction.pins
          /\ t \in compaction.short => ReduceResults /\ log[t].kind = "result"
      BY <1>1, <2>1, <2>4 DEF StoreOK, UnresolvedIsKept, Intact, Exact
    <3>2. t \in p.pins /\ (t \in p.short => ReduceResults /\ log[t].kind = "result")
      BY <1>5, <3>1
    <3>. QED BY <3>2 DEF Intact, Exact
  <2>. QED BY <2>3, <2>4
<1>10. StoreOK'
  BY <1>1, <1>5, <1>6, <1>8, <1>9 DEF StoreOK
<1>11. PICK q \in RequestSet :
           /\ q.event = e /\ q.result # "success" /\ req' = [req EXCEPT ![r] = q] /\ req'[r] = q
           /\ \/ q.st = "closing"
              \/ /\ q.st = "asked" /\ q.known = p /\ q.upto = req[r].upto
                 /\ q.protected = req[r].protected
  <2>1. CASE Closing(r, "error")
    <3>1. PICK q \in RequestSet : /\ q.st = "closing" /\ q.event = req[r].event
                                  /\ q.result = "error"
                                  /\ req' = [req EXCEPT ![r] = q] /\ req'[r] = q
      BY <1>1, <2>1, ClosingRequest
    <3>. QED BY <3>1
  <2>2. CASE req' = [req EXCEPT ![r].st = "asked", ![r].known = p]
    <3>. DEFINE q == [req[r] EXCEPT !.st = "asked", !.known = p]
    <3>1. q \in RequestSet
      BY <1>1, <1>5 DEF RequestSet
    <3>2. /\ q.st = "asked" /\ q.known = p /\ q.upto = req[r].upto /\ q.event = e
          /\ q.protected = req[r].protected /\ q.result = req[r].result
      BY <1>1 DEF RequestSet
    <3>3. req' = [req EXCEPT ![r] = q] /\ req'[r] = q
      BY <1>1, <2>2
    <3>. HIDE DEF q
    <3>4. req[r].result # "success"
      BY <1>1 DEF RequestsOK, SuccessIsStored, Holds, StoreOK
    <3>. QED BY <3>1, <3>2, <3>3, <3>4
  <2>. QED BY <1>3, <2>1, <2>2 DEF p
<1>12. Informed(r)'
  <2>1. CASE q.st = "closing"
    BY <1>11, <2>1 DEF Informed
  <2>2. CASE q.st # "closing"
    <3>1. \A t \in Messages' : t <= req'[r].upto
      BY <1>2, <1>7, <1>11, <2>2
    <3>2. req'[r].known = compaction'
      BY <1>6, <1>11, <2>2
    <3>3. ASSUME NEW f \in Unresolved', NEW t \in InputOf(f)', t > compaction'.through
          PROVE  t \in req'[r].protected
      <4>1. f \in Unresolved /\ t \in InputOf(f) /\ t \in Nat
        BY <1>1, <1>7, <3>3 DEF Unresolved, InputOf
      <4>2. t > compaction.through
        BY <1>6, <3>3, <4>1
      <4>. QED BY <1>2, <1>11, <2>2, <4>1, <4>2
    <3>4. req'[r].protected \cap compaction'.short = {}
      BY <1>2, <1>5, <1>6, <1>11, <2>2
    <3>. QED BY <3>1, <3>2, <3>3, <3>4 DEF Informed
  <2>. QED BY <2>1, <2>2
<1>13. \A x \in Requests \ {r} : req[x].st \in {"ready", "asked"} => Informed(x)'
  <2>1. SUFFICES ASSUME NEW x \in Requests \ {r}, req[x].st \in {"ready", "asked"}
                 PROVE  ~Holds(x)'
    BY DEF Informed
  <2>2. req'[x] = req[x] /\ req[x].event \in Events
    BY <1>1, <1>11, <2>1, RequestFacts
  <2>3. CASE req[x].event = e
    BY <1>1, <2>2, <2>3 DEF Holds
  <2>4. CASE req[x].event # e
    BY <1>1, <2>2, <2>4 DEF Holds, StoreOK
  <2>. QED BY <2>3, <2>4
<1>14. RequestsOK'
  BY <1>1, <1>11, <1>12, <1>13, RequestMoves
<1>. QED BY <1>10, <1>14, TwoParts DEF IInv, StoreOK, RequestsOK, TypeOK, RowSet, TurnSet, RequestSet

----------------------------------------------------------------------------
(* The theorems *)

LEMMA Initially == Init => IInv
<1>. SUFFICES ASSUME Init PROVE IInv
  OBVIOUS
<1>1. /\ status = "active" /\ log = <<>> /\ turn = [e \in Events |-> NoTurn]
      /\ compaction = Nothing /\ req = [r \in Requests |-> Fresh]
  BY DEF Init
<1>2. NoTurn \in TurnSet /\ NoTurn.state = "none" /\ ~NoTurn.live
  BY DEF NoTurn, TurnSet
<1>3. /\ turn \in [Events -> TurnSet]
      /\ \A e \in Events : turn[e].state = "none" /\ ~turn[e].live
  BY <1>1, <1>2
<1>4. Len(log) = 0 /\ log \in Seq(RowSet)
  BY <1>1
<1>5. /\ compaction \in Compactions /\ compaction.through = 0
      /\ compaction.pins = {} /\ compaction.short = {}
  BY <1>1 DEF Nothing, Compactions
<1>6. Placed /\ Answered /\ Latest
  BY <1>3, <1>4, <1>5 DEF Placed, Answered, Latest
<1>7. AnswerFollowsInput /\ UnresolvedIsKept
  BY <1>3, <1>4 DEF AnswerFollowsInput, UnresolvedIsKept, Messages
<1>8. StoreOK
  BY <1>1, <1>3, <1>4, <1>5, <1>6, <1>7 DEF StoreOK
<1>9. Fresh \in RequestSet /\ Fresh.st = "idle" /\ Fresh.result = "none"
  BY DEF RequestSet, Fresh, Nothing, Compactions
<1>10. /\ req \in [Requests -> RequestSet]
       /\ \A r \in Requests : req[r].st = "idle" /\ req[r].result = "none"
  BY <1>1, <1>9
<1>11. RequestsOK
  BY <1>10 DEF RequestsOK, Named, SuccessIsStored, Informed
<1>. QED BY <1>8, <1>11, TwoParts

LEMMA StepKeeps == IInv /\ [Next]_vars => IInv'
<1>. SUFFICES ASSUME IInv, [Next]_vars PROVE IInv'
  OBVIOUS
<1>1. CASE UNCHANGED vars
  <2>1. StoreOK' /\ UNCHANGED req /\ UNCHANGED store
    BY <1>1, TwoParts, StoreUnchanged DEF vars
  <2>2. RequestsOK'
    BY <2>1, TwoParts DEF store, RequestsOK, Named, SuccessIsStored, Informed, Holds, Messages,
                          InputOf, Unresolved
  <2>. QED BY <2>1, <2>2 DEF IInv, StoreOK, RequestsOK, TypeOK, RowSet, TurnSet, RequestSet
<1>2. ASSUME NEW r \in Requests, NEW e \in Events, Claim(r, e)
      PROVE  IInv'
  BY <1>2, ClaimStep
<1>3. ASSUME NEW r \in Requests, Refuse(r) \/ Crash(r)
      PROVE  IInv'
  BY <1>3, RefuseStep, CrashStep
<1>4. ASSUME NEW r \in Requests, RequestStep(r)
      PROVE  IInv'
  BY <1>4, ReadContextStep, GivesUpStep, AskStep, CompactStep, CommitStep, CloseStep
     DEF RequestStep
<1>5. ASSUME NEW e \in Events, LeaseExpires(e)
      PROVE  IInv'
  BY <1>5, LeaseExpiresStep
<1>6. CASE Update \/ Delete \/ AddCheckpoint
  BY <1>6, UpdateStep, DeleteStep, AddCheckpointStep
<1>7. CASE Settled
  BY <1>1, <1>7 DEF Settled
<1>. QED BY <1>1, <1>2, <1>3, <1>4, <1>5, <1>6, <1>7 DEF Next

\* The invariant that carries all the others, from managed.begin to Turn.close.
THEOREM Invariance == Spec => []IInv
<1>. QED BY Initially, StepKeeps, PTL DEF Spec

\* No transaction of the store runs into the unique index one_pending_turn, and
\* a lease counts only while its turn is pending.
THEOREM TypeCorrect == Spec => []TypeOK
<1>1. IInv => TypeOK
  BY DEF IInv
<1>. QED BY <1>1, Invariance, PTL

\* finish_turn puts an answer right after the input of its own turn, whoever
\* else has claimed, retried, or lost a lease on the session before.
THEOREM AnswersFollow == Spec => []AnswerFollowsInput
<1>1. IInv => AnswerFollowsInput
  BY DEF IInv
<1>. QED BY <1>1, Invariance, PTL

\* Turn.commit: a client that got its answer finds it stored.
THEOREM SuccessLasts == Spec => []SuccessIsStored
<1>1. IInv => SuccessIsStored
  BY DEF IInv
<1>. QED BY <1>1, Invariance, PTL

\* context_manager.project never summarises the input of a turn that was not
\* answered, from however old a reading of the session it was made, and cuts short
\* only tool results in it; without cfg.reduce_tool_results nothing.
THEOREM UnresolvedInputsStay == Spec => []UnresolvedIsKept
<1>1. IInv => UnresolvedIsKept
  BY DEF IInv
<1>. QED BY <1>1, Invariance, PTL

\* finish_turn: no answer is stored that a model gave to an outdated conversation,
\* or to a part of its own input; only tool results that an earlier attempt had
\* already compacted may have been cut short in it.
THEOREM CommitsAreInformed == Spec => CommitsOnTheWhole
<1>. DEFINE Whole(r) == /\ \A s \in Messages : s <= req[r].upto
                        /\ req[r].known = compaction
                        /\ \A s \in InputOf(req[r].event) :
                               /\ Intact(req[r].known, s)
                               /\ s \in req[r].protected => Exact(req[r].known, s)
<1>1. ASSUME IInv, NEW r \in Requests, Commit(r)
      PROVE  Whole(r)
  <2>1. /\ StoreOK /\ Informed(r) /\ Holds(r) /\ req[r].st = "asked"
        /\ req[r].event \in Events
    BY <1>1, TwoParts, RequestFacts DEF RequestsOK, Commit
  <2>2. turn[req[r].event].state = "pending"
    BY <2>1 DEF StoreOK, Holds
  <2>3. /\ \A s \in Messages : s <= req[r].upto
        /\ req[r].known = compaction /\ req[r].protected \cap compaction.short = {}
    BY <2>1 DEF Informed
  <2>4. ASSUME NEW s \in InputOf(req[r].event)
        PROVE  Intact(compaction, s) /\ (s \in req[r].protected => Exact(compaction, s))
    <3>1. Intact(compaction, s)
      BY <2>1, <2>2, <2>4 DEF StoreOK, UnresolvedIsKept
    <3>. QED BY <2>3, <3>1 DEF Intact, Exact
  <2>. QED BY <2>3, <2>4
<1>2. IInv => [\A r \in Requests : Commit(r) => Whole(r)]_vars
  BY <1>1
<1>. QED BY <1>2, Invariance, PTL DEF CommitsOnTheWhole
=============================================================================
