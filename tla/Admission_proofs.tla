--------------------------- MODULE Admission_proofs ---------------------------
(* Proofs about Admission, for any number of requests, nodes and models. *)
EXTENDS Admission, FiniteSetTheorems, TLAPS

\* Only managed turns await between their choice and their start.
DeferredOnly == In({"target"}) \subseteq Managed

IInv == TypeOK /\ DeferredOnly /\ Bookkeeping /\ OrdinaryWithinLimits /\ OneOrdinaryProbe

\* Request s counts the same way before and after the step.
Kept(s) == /\ s \in Active' <=> s \in Active
           /\ s \in Active => /\ req'[s].node = req[s].node
                              /\ req'[s].model = req[s].model
                              /\ req'[s].probe = req[s].probe

----------------------------------------------------------------------------
(* Counting the attempts *)

LEMMA Finiteness ==
    ASSUME NEW S \in SUBSET Requests
    PROVE  IsFiniteSet(S) /\ Cardinality(S) \in Nat
BY SetsAssumption, FS_Subset, FS_CardinalityType

\* A step that moves no request into or out of an attempt keeps what is counted.
LEMMA NoneMoves ==
    ASSUME IInv, \A s \in Requests : Kept(s), UNCHANGED <<inflight, inflightModels>>
    PROVE  Bookkeeping' /\ OrdinaryWithinLimits' /\ OneOrdinaryProbe'
<1>1. Active' = Active
  BY DEF Kept, Active, In
<1>2. \A n : (ActiveOn(n))' = ActiveOn(n)
  BY <1>1 DEF Kept, Active, In, ActiveOn
<1>3. \A n, m : (ActiveFor(n, m))' = ActiveFor(n, m)
  BY <1>1, <1>2 DEF Kept, Active, In, ActiveOn, ActiveFor
<1>4. Bookkeeping'
  BY <1>2, <1>3 DEF IInv, Bookkeeping
<1>5. OrdinaryWithinLimits'
  BY <1>2, <1>3 DEF IInv, OrdinaryWithinLimits
<1>6. OneOrdinaryProbe'
  BY <1>1 DEF IInv, OneOrdinaryProbe, Kept, Active, In
<1>. QED BY <1>4, <1>5, <1>6

\* The counts after request r has begun an attempt for model m on node n.
LEMMA OneEnters ==
    ASSUME IInv, NEW r \in Requests, NEW n \in Nodes, NEW m \in Models,
           r \notin Active, r \in Active', req'[r].node = n, req'[r].model = m,
           \A s \in Requests \ {r} : Kept(s),
           inflight' = [inflight EXCEPT ![n] = @ + 1],
           inflightModels' = [inflightModels EXCEPT ![n][m] = @ + 1],
           r \notin Managed =>
              /\ inflight[n] < MaxInflight[n]
              /\ MaxParallel[m] # 0 => inflightModels[n][m] < MaxParallel[m]
              /\ req'[r].probe => inflight[n] = 0
    PROVE  Bookkeeping' /\ OrdinaryWithinLimits' /\ OneOrdinaryProbe'
<1>1. Active' = Active \cup {r} /\ Active \subseteq Requests
  BY DEF Kept, Active, In
<1>2. \A k : (ActiveOn(k))' = IF k = n THEN ActiveOn(k) \cup {r} ELSE ActiveOn(k)
  BY <1>1 DEF Kept, ActiveOn
<1>3. \A k, l : (ActiveFor(k, l))' =
                 IF k = n /\ l = m THEN ActiveFor(k, l) \cup {r} ELSE ActiveFor(k, l)
  BY <1>1, <1>2 DEF Kept, ActiveOn, ActiveFor
<1>4. \A k, l : /\ ActiveOn(k) \in SUBSET Requests /\ r \notin ActiveOn(k)
                /\ ActiveFor(k, l) \in SUBSET Requests /\ r \notin ActiveFor(k, l)
  BY <1>1 DEF ActiveOn, ActiveFor
<1>5. \A S \in SUBSET Requests : r \notin S => Cardinality(S \cup {r}) = Cardinality(S) + 1
  BY Finiteness, FS_AddElement
<1>6. Bookkeeping'
  <2>1. ASSUME NEW k \in Nodes PROVE inflight'[k] = Cardinality((ActiveOn(k))')
    BY <1>2, <1>4, <1>5 DEF IInv, TypeOK, Bookkeeping
  <2>2. ASSUME NEW k \in Nodes, NEW l \in Models
        PROVE  inflightModels'[k][l] = Cardinality((ActiveFor(k, l))')
    <3>1. CASE k = n /\ l = m
      <4>1. inflightModels'[k][l] = inflightModels[k][l] + 1
        BY <3>1 DEF IInv, TypeOK
      <4>2. Cardinality((ActiveFor(k, l))') = Cardinality(ActiveFor(k, l)) + 1
        BY <1>3, <1>4, <1>5, <3>1
      <4>. QED BY <4>1, <4>2 DEF IInv, Bookkeeping
    <3>2. CASE ~(k = n /\ l = m)
      <4>1. inflightModels'[k][l] = inflightModels[k][l]
        BY <3>2 DEF IInv, TypeOK
      <4>. QED BY <1>3, <3>2, <4>1 DEF IInv, Bookkeeping
    <3>. QED BY <3>1, <3>2
  <2>. QED BY <2>1, <2>2 DEF Bookkeeping
<1>7. OrdinaryWithinLimits'
  <2>1. ASSUME NEW k \in Nodes
        PROVE  Cardinality((ActiveOn(k))' \ Managed) <= MaxInflight[k]
    <3>1. CASE r \in Managed \/ k # n
      <4>1. (ActiveOn(k))' \ Managed = ActiveOn(k) \ Managed
        BY <1>2, <3>1
      <4>. QED BY <4>1 DEF IInv, OrdinaryWithinLimits
    <3>2. CASE r \notin Managed /\ k = n
      <4>1. (ActiveOn(k))' \ Managed = (ActiveOn(k) \ Managed) \cup {r}
        BY <1>2, <3>2
      <4>2. Cardinality(ActiveOn(k) \ Managed) <= Cardinality(ActiveOn(k))
        BY <1>4, Finiteness, FS_Subset
      <4>3. Cardinality((ActiveOn(k))' \ Managed) = Cardinality(ActiveOn(k) \ Managed) + 1
        BY <1>4, <1>5, <4>1, Zenon
      <4>4. /\ Cardinality(ActiveOn(k)) = inflight[k] /\ inflight[k] \in Nat
            /\ Cardinality(ActiveOn(k) \ Managed) \in Nat /\ MaxInflight[k] \in Nat
        BY <1>4, Finiteness, CapAssumption DEF IInv, TypeOK, Bookkeeping
      <4>5. inflight[k] < MaxInflight[k]
        BY <3>2
      <4>. QED BY <4>2, <4>3, <4>4, <4>5
    <3>. QED BY <3>1, <3>2
  <2>2. ASSUME NEW k \in Nodes, NEW l \in Models, MaxParallel[l] # 0
        PROVE  Cardinality((ActiveFor(k, l))' \ Managed) <= MaxParallel[l]
    <3>1. CASE r \in Managed \/ k # n \/ l # m
      <4>1. (ActiveFor(k, l))' \ Managed = ActiveFor(k, l) \ Managed
        BY <1>3, <3>1
      <4>. QED BY <4>1, <2>2 DEF IInv, OrdinaryWithinLimits
    <3>2. CASE r \notin Managed /\ k = n /\ l = m
      <4>1. (ActiveFor(k, l))' \ Managed = (ActiveFor(k, l) \ Managed) \cup {r}
        BY <1>3, <3>2
      <4>2. Cardinality(ActiveFor(k, l) \ Managed) <= Cardinality(ActiveFor(k, l))
        BY <1>4, Finiteness, FS_Subset
      <4>3. Cardinality((ActiveFor(k, l))' \ Managed) = Cardinality(ActiveFor(k, l) \ Managed) + 1
        BY <1>4, <1>5, <4>1, Zenon
      <4>4. /\ Cardinality(ActiveFor(k, l)) = inflightModels[k][l]
            /\ inflightModels[k][l] \in Nat /\ MaxParallel[l] \in Nat
            /\ Cardinality(ActiveFor(k, l) \ Managed) \in Nat
        BY <1>4, Finiteness, CapAssumption DEF IInv, TypeOK, Bookkeeping
      <4>5. inflightModels[k][l] < MaxParallel[l]
        BY <2>2, <3>2
      <4>. QED BY <4>2, <4>3, <4>4, <4>5
    <3>. QED BY <3>1, <3>2
  <2>. QED BY <2>1, <2>2 DEF OrdinaryWithinLimits
<1>8. OneOrdinaryProbe'
  <2>. SUFFICES ASSUME NEW s \in Active' \ Managed, NEW t \in Active' \ Managed,
                       req'[s].probe, req'[t].probe, req'[s].node = req'[t].node, s # t
                PROVE  FALSE
    BY DEF OneOrdinaryProbe
  <2>1. CASE s # r /\ t # r
    BY <1>1, <2>1 DEF IInv, OneOrdinaryProbe, Kept
  <2>2. CASE s = r \/ t = r
    <3>1. inflight[n] = 0 /\ (s \in ActiveOn(n) \/ t \in ActiveOn(n))
      BY <1>1, <2>2 DEF Kept, ActiveOn
    <3>2. ActiveOn(n) = {}
      BY <1>4, <3>1, Finiteness, FS_EmptySet DEF IInv, Bookkeeping
    <3>. QED BY <3>1, <3>2
  <2>. QED BY <2>1, <2>2
<1>. QED BY <1>6, <1>7, <1>8

\* The counts after the attempt of request r has ended.
LEMMA OneLeaves ==
    ASSUME IInv, NEW r \in Active, r \notin Active',
           \A s \in Requests \ {r} : Kept(s),
           inflight' = [inflight EXCEPT ![req[r].node] = @ - 1],
           inflightModels' = [inflightModels EXCEPT ![req[r].node][req[r].model] = @ - 1]
    PROVE  /\ Bookkeeping' /\ OrdinaryWithinLimits' /\ OneOrdinaryProbe'
           /\ inflight' \in [Nodes -> Nat] /\ inflightModels' \in [Nodes -> [Models -> Nat]]
<1>. DEFINE n == req[r].node
            m == req[r].model
<1>0. r \in Requests /\ n \in Nodes /\ m \in Models
  BY DEF IInv, TypeOK, Active, In, Placed
<1>1. Active' = Active \ {r} /\ Active \subseteq Requests
  BY <1>0 DEF Kept, Active, In
<1>2. \A k : (ActiveOn(k))' = IF k = n THEN ActiveOn(k) \ {r} ELSE ActiveOn(k)
  BY <1>1 DEF Kept, ActiveOn
<1>3. \A k, l : (ActiveFor(k, l))' =
                 IF k = n /\ l = m THEN ActiveFor(k, l) \ {r} ELSE ActiveFor(k, l)
  BY <1>1, <1>2 DEF Kept, ActiveOn, ActiveFor
<1>4. /\ \A k, l : ActiveOn(k) \in SUBSET Requests /\ ActiveFor(k, l) \in SUBSET Requests
      /\ r \in ActiveOn(n) /\ r \in ActiveFor(n, m)
  BY <1>1 DEF ActiveOn, ActiveFor
<1>5. \A S \in SUBSET Requests : r \in S => /\ Cardinality(S \ {r}) = Cardinality(S) - 1
                                            /\ Cardinality(S \ {r}) \in Nat
  BY Finiteness, FS_RemoveElement
<1>6. Bookkeeping'
  <2>1. ASSUME NEW k \in Nodes PROVE inflight'[k] = Cardinality((ActiveOn(k))')
    BY <1>2, <1>4, <1>5 DEF IInv, TypeOK, Bookkeeping
  <2>2. ASSUME NEW k \in Nodes, NEW l \in Models
        PROVE  inflightModels'[k][l] = Cardinality((ActiveFor(k, l))')
    BY <1>3, <1>4, <1>5 DEF IInv, TypeOK, Bookkeeping
  <2>. QED BY <2>1, <2>2 DEF Bookkeeping
<1>7. inflight' \in [Nodes -> Nat] /\ inflightModels' \in [Nodes -> [Models -> Nat]]
  <2>1. inflight[n] - 1 \in Nat
    <3>1. inflight[n] = Cardinality(ActiveOn(n))
      BY <1>0 DEF IInv, Bookkeeping
    <3>. QED BY <1>4, <1>5, <3>1
  <2>2. inflightModels[n][m] - 1 \in Nat
    <3>1. inflightModels[n][m] = Cardinality(ActiveFor(n, m))
      BY <1>0 DEF IInv, Bookkeeping
    <3>. QED BY <1>4, <1>5, <3>1
  <2>. QED BY <1>0, <2>1, <2>2 DEF IInv, TypeOK
<1>8. \A S, T \in SUBSET Requests : S \subseteq T => Cardinality(S) <= Cardinality(T)
  BY Finiteness, FS_Subset
<1>9. OrdinaryWithinLimits'
  <2>1. ASSUME NEW k \in Nodes
        PROVE  Cardinality((ActiveOn(k))' \ Managed) <= MaxInflight[k]
    <3>1. Cardinality((ActiveOn(k))' \ Managed) <= Cardinality(ActiveOn(k) \ Managed)
      BY <1>2, <1>4, <1>8
    <3>2. Cardinality((ActiveOn(k))' \ Managed) \in Nat /\ Cardinality(ActiveOn(k) \ Managed) \in Nat
      BY <1>2, <1>4, Finiteness
    <3>. QED BY <3>1, <3>2, CapAssumption DEF IInv, OrdinaryWithinLimits
  <2>2. ASSUME NEW k \in Nodes, NEW l \in Models, MaxParallel[l] # 0
        PROVE  Cardinality((ActiveFor(k, l))' \ Managed) <= MaxParallel[l]
    <3>1. Cardinality((ActiveFor(k, l))' \ Managed) <= Cardinality(ActiveFor(k, l) \ Managed)
      BY <1>3, <1>4, <1>8
    <3>2. /\ Cardinality((ActiveFor(k, l))' \ Managed) \in Nat
          /\ Cardinality(ActiveFor(k, l) \ Managed) \in Nat
      BY <1>3, <1>4, Finiteness
    <3>3. Cardinality(ActiveFor(k, l) \ Managed) <= MaxParallel[l] /\ MaxParallel[l] \in Nat
      BY <2>2, CapAssumption DEF IInv, OrdinaryWithinLimits
    <3>. QED BY <3>1, <3>2, <3>3
  <2>. QED BY <2>1, <2>2 DEF OrdinaryWithinLimits
<1>10. OneOrdinaryProbe'
  BY <1>1 DEF IInv, OneOrdinaryProbe, Kept
<1>. QED BY <1>6, <1>7, <1>9, <1>10

----------------------------------------------------------------------------
(* The parts steps are made of *)

\* Breaker switches by candidates_for keep the type.
LEMMA AskedType ==
    ASSUME TypeOK, NEW r \in Requests
    PROVE  BreakerAsked(r) \in [Nodes -> {"closed", "open", "half_open"}]
BY DEF TypeOK, BreakerAsked

\* What an ended attempt leaves: the top of the loop again, or an answer.
LEMMA AgainType ==
    ASSUME NEW q \in RequestType
    PROVE  Again(q) \in RequestType /\ Again(q).st = "select"
BY DEF Again, RequestType, States

\* A request that changes without entering or leaving an attempt.
LEMMA Aside ==
    ASSUME TypeOK, DeferredOnly, NEW r \in Requests, NEW q \in RequestType,
           req' = [req EXCEPT ![r] = q],
           q.st = "target" => r \in Managed,
           r \notin Active, q.st \notin {"running", "failing"},
           q.st \in Placed => q.node \in Nodes /\ q.model \in Models
    PROVE  /\ \A s \in Requests : Kept(s)
           /\ req' \in [Requests -> RequestType]
           /\ \A s \in (In(Placed))' : req'[s].node \in Nodes /\ req'[s].model \in Models
           /\ DeferredOnly'
<1>1. \A s \in Requests : req'[s] = IF s = r THEN q ELSE req[s]
  BY DEF TypeOK
<1>2. \A s \in Requests : Kept(s)
  BY <1>1 DEF Kept, Active, In
<1>3. req' \in [Requests -> RequestType]
  BY DEF TypeOK
<1>4. \A s \in (In(Placed))' : req'[s].node \in Nodes /\ req'[s].model \in Models
  BY <1>1 DEF TypeOK, In
<1>5. DeferredOnly'
  BY <1>1 DEF DeferredOnly, In
<1>. QED BY <1>2, <1>3, <1>4, <1>5

\* What a release does to the requests: at most one waiter is woken.
LEMMA ReleaseWakes ==
    ASSUME NEW rs \in [Requests -> RequestType], NEW n, NEW t, NEW o,
           NEW new \in AfterRelease(rs, n, t, o)
    PROVE  /\ new \in [Requests -> RequestType]
           /\ \A s \in Requests :
                 \/ new[s] = rs[s]
                 \/ rs[s].st = "waiting" /\ new[s] = [rs[s] EXCEPT !.st = "woken"]
<1>1. CASE new = rs
  BY <1>1
<1>2. CASE \E w \in Requests : rs[w].st = "waiting" /\ new = [rs EXCEPT ![w].st = "woken"]
  <2>1. PICK w \in Requests : rs[w].st = "waiting" /\ new = [rs EXCEPT ![w].st = "woken"]
    BY <1>2
  <2>2. [rs[w] EXCEPT !.st = "woken"] \in RequestType
    BY DEF RequestType, States
  <2>3. new = [rs EXCEPT ![w] = [rs[w] EXCEPT !.st = "woken"]]
    BY <2>1
  <2>. QED BY <2>1, <2>2, <2>3
<1>3. new = rs \/ \E w \in Requests : rs[w].st = "waiting" /\ new = [rs EXCEPT ![w].st = "woken"]
  BY DEF AfterRelease
<1>. QED BY <1>1, <1>2, <1>3

\* The end of an attempt, however it ends.
LEMMA FinishEnds ==
    ASSUME IInv, NEW r \in Active, NEW next \in RequestType,
           next.st \in {"select", "answered"}, Finish(r, next)
    PROVE  /\ DeferredOnly' /\ Bookkeeping' /\ OrdinaryWithinLimits' /\ OneOrdinaryProbe'
           /\ now' \in Nat /\ req' \in [Requests -> RequestType]
           /\ \A s \in (In(Placed))' : req'[s].node \in Nodes /\ req'[s].model \in Models
           /\ inflight' \in [Nodes -> Nat] /\ inflightModels' \in [Nodes -> [Models -> Nat]]
           /\ loading' \in [Nodes -> SUBSET Models]
<1>. DEFINE rs == [req EXCEPT ![r] = next]
<1>1. r \in Requests /\ rs \in [Requests -> RequestType]
  BY DEF IInv, TypeOK, Active, In
<1>2. req' \in AfterRelease(rs, req[r].node, inflight'[req[r].node], inflightModels'[req[r].node])
  BY DEF Finish
<1>3. /\ req' \in [Requests -> RequestType]
      /\ \A s \in Requests :
            \/ req'[s] = rs[s]
            \/ rs[s].st = "waiting" /\ req'[s] = [rs[s] EXCEPT !.st = "woken"]
  <2>. DEFINE n == req[r].node
              t == inflight'[req[r].node]
              o == inflightModels'[req[r].node]
  <2>1. req' \in AfterRelease(rs, n, t, o)
    BY <1>2
  <2>. HIDE DEF rs, n, t, o
  <2>. QED BY <1>1, <2>1, ReleaseWakes
<1>4. \A s \in Requests : rs[s] = IF s = r THEN next ELSE req[s]
  BY DEF IInv, TypeOK
<1>5. \A s \in Requests : /\ req'[s].node = rs[s].node /\ req'[s].model = rs[s].model
                          /\ req'[s].probe = rs[s].probe
                          /\ req'[s].st = rs[s].st \/ (rs[s].st = "waiting" /\ req'[s].st = "woken")
  <2>1. \A s \in Requests : rs[s] \in RequestType
    BY <1>1
  <2>. QED BY <1>3, <2>1 DEF RequestType
<1>6. r \notin Active' /\ \A s \in Requests \ {r} : Kept(s)
  BY <1>4, <1>5 DEF Kept, Active, In
<1>7. /\ inflight' = [inflight EXCEPT ![req[r].node] = @ - 1]
      /\ inflightModels' = [inflightModels EXCEPT ![req[r].node][req[r].model] = @ - 1]
  BY DEF Finish
<1>8. \A s \in (In(Placed))' : req'[s].node \in Nodes /\ req'[s].model \in Models
  BY <1>4, <1>5 DEF IInv, TypeOK, In, Placed
<1>9. now' \in Nat /\ loading' \in [Nodes -> SUBSET Models]
  BY DEF Finish, IInv, TypeOK
<1>10. DeferredOnly'
  BY <1>4, <1>5 DEF IInv, DeferredOnly, In
<1>. QED BY <1>3, <1>6, <1>7, <1>8, <1>9, <1>10, OneLeaves

\* The start of an attempt of a request that has chosen its node.
LEMMA BeginStarts ==
    ASSUME IInv, NEW r \in Requests, NEW q \in RequestType, NEW asked,
           r \notin Active, q.node \in Nodes, q.model \in Models,
           Begin(r, q, asked),
           r \notin Managed =>
              /\ inflight[q.node] < MaxInflight[q.node]
              /\ MaxParallel[q.model] # 0 =>
                    inflightModels[q.node][q.model] < MaxParallel[q.model]
              /\ asked[q.node] = "half_open" => inflight[q.node] = 0
    PROVE  /\ DeferredOnly' /\ Bookkeeping' /\ OrdinaryWithinLimits' /\ OneOrdinaryProbe'
           /\ req' \in [Requests -> RequestType]
           /\ \A s \in (In(Placed))' : req'[s].node \in Nodes /\ req'[s].model \in Models
           /\ inflight' \in [Nodes -> Nat] /\ inflightModels' \in [Nodes -> [Models -> Nat]]
           /\ loading' \in [Nodes -> SUBSET Models]
<1>. DEFINE p == [q EXCEPT !.st = "running", !.probe = asked[q.node] = "half_open"]
<1>1. /\ req' = [req EXCEPT ![r] = p]
      /\ inflight' = [inflight EXCEPT ![q.node] = @ + 1]
      /\ inflightModels' = [inflightModels EXCEPT ![q.node][q.model] = @ + 1]
  BY DEF Begin
<1>2. /\ p \in RequestType /\ p.st = "running" /\ p.node = q.node /\ p.model = q.model
      /\ p.probe = (asked[q.node] = "half_open")
  BY DEF RequestType, States
<1>3. \A s \in Requests : req'[s] = IF s = r THEN p ELSE req[s]
  BY <1>1 DEF IInv, TypeOK
<1>4. r \in Active' /\ \A s \in Requests \ {r} : Kept(s)
  BY <1>2, <1>3 DEF Kept, Active, In
<1>5. req' \in [Requests -> RequestType]
  BY <1>1, <1>2 DEF IInv, TypeOK
<1>6. \A s \in (In(Placed))' : req'[s].node \in Nodes /\ req'[s].model \in Models
  BY <1>2, <1>3 DEF IInv, TypeOK, In
<1>7. /\ inflight' \in [Nodes -> Nat] /\ inflightModels' \in [Nodes -> [Models -> Nat]]
      /\ loading' \in [Nodes -> SUBSET Models]
  <2>1. loading' \in [Nodes -> SUBSET Models]
    <3>1. CASE loading' = [loading EXCEPT ![q.node] = @ \cup {q.model}]
      BY <3>1 DEF IInv, TypeOK
    <3>2. CASE UNCHANGED loading
      BY <3>2 DEF IInv, TypeOK
    <3>. QED BY <3>1, <3>2 DEF Begin
  <2>2. inflight' \in [Nodes -> Nat]
    BY <1>1 DEF IInv, TypeOK
  <2>3. inflightModels' \in [Nodes -> [Models -> Nat]]
    BY <1>1 DEF IInv, TypeOK
  <2>. QED BY <2>1, <2>2, <2>3
<1>8. req'[r].node = q.node /\ req'[r].model = q.model /\ req'[r].probe = (asked[q.node] = "half_open")
  BY <1>2, <1>3
<1>9. Bookkeeping' /\ OrdinaryWithinLimits' /\ OneOrdinaryProbe'
  BY <1>1, <1>4, <1>8, OneEnters
<1>10. DeferredOnly'
  BY <1>2, <1>3 DEF IInv, DeferredOnly, In
<1>. QED BY <1>5, <1>6, <1>7, <1>9, <1>10

----------------------------------------------------------------------------
(* The invariant *)

LEMMA Initially == Init => IInv
<1>. SUFFICES ASSUME Init PROVE IInv
  OBVIOUS
<1>1. Fresh \in RequestType /\ Fresh.st = "idle"
  BY DEF Fresh, RequestType, States, NotQueued
<1>2. \A r \in Requests : req[r] = Fresh
  BY DEF Init
<1>3. Active = {} /\ In({"target"}) = {} /\ In(Placed) = {}
  BY <1>1, <1>2 DEF Active, In, Placed
<1>4. \A n, m : ActiveOn(n) = {} /\ ActiveFor(n, m) = {}
  BY <1>3 DEF ActiveOn, ActiveFor
<1>5. Cardinality({}) = 0 /\ {} \ Managed = {}
  BY FS_EmptySet
<1>6. TypeOK
  <2>1. req \in [Requests -> RequestType]
    BY <1>1 DEF Init
  <2>. QED BY <1>3, <2>1 DEF Init, TypeOK
<1>7. Bookkeeping
  BY <1>4, <1>5 DEF Init, Bookkeeping
<1>8. OrdinaryWithinLimits
  <2>1. \A n \in Nodes : Cardinality(ActiveOn(n) \ Managed) = 0
    BY <1>4, <1>5
  <2>2. \A n \in Nodes, m \in Models : Cardinality(ActiveFor(n, m) \ Managed) = 0
    BY <1>4, <1>5
  <2>. QED BY <2>1, <2>2, CapAssumption DEF OrdinaryWithinLimits
<1>. QED BY <1>3, <1>6, <1>7, <1>8 DEF IInv, DeferredOnly, OneOrdinaryProbe

\* A step that only changes request r, outside an attempt, and breaker switches.
LEMMA AsideStep ==
    ASSUME IInv, NEW r \in Requests, NEW q \in RequestType,
           req' = [req EXCEPT ![r] = q],
           q.st = "target" => r \in Managed,
           r \notin Active, q.st \notin {"running", "failing"},
           q.st \in Placed => q.node \in Nodes /\ q.model \in Models,
           breaker' \in [Nodes -> {"closed", "open", "half_open"}],
           UNCHANGED <<now, reportVars, loadVars, until, fails>>
    PROVE  IInv'
<1>1. /\ \A s \in Requests : Kept(s)
      /\ req' \in [Requests -> RequestType]
      /\ \A s \in (In(Placed))' : req'[s].node \in Nodes /\ req'[s].model \in Models
      /\ DeferredOnly'
  BY Aside DEF IInv
<1>2. UNCHANGED <<inflight, inflightModels>>
  BY DEF loadVars
<1>3. Bookkeeping' /\ OrdinaryWithinLimits' /\ OneOrdinaryProbe'
  BY <1>1, <1>2, NoneMoves
<1>4. TypeOK'
  BY <1>1 DEF IInv, TypeOK, reportVars, loadVars
<1>. QED BY <1>1, <1>3, <1>4 DEF IInv

LEMMA ChoosePreserves ==
    ASSUME IInv, NEW r \in Requests, NEW n \in Nodes, NEW m \in Models, Choose(r, n, m)
    PROVE  IInv'
<1>. DEFINE q == [req[r] EXCEPT !.node = n, !.model = m, !.tried = @ \cup {n}]
            asked == BreakerAsked(r)
<1>1. /\ q \in RequestType /\ q.node = n /\ q.model = m
      /\ r \notin Active
  <2>1. req[r] \in RequestType /\ req[r].st = "select"
    BY DEF Choose, IInv, TypeOK
  <2>2. r \notin Active
    BY <2>1 DEF Active, In
  <2>. QED BY <2>1, <2>2 DEF RequestType
<1>2. asked \in [Nodes -> {"closed", "open", "half_open"}] /\ breaker' = asked
  BY AskedType DEF Choose, IInv
<1>3. CASE r \in Managed
  <2>. DEFINE t == [q EXCEPT !.st = "target"]
  <2>1. req' = [req EXCEPT ![r] = t] /\ UNCHANGED loadVars
    BY <1>3 DEF Choose
  <2>2. t \in RequestType /\ t.st = "target" /\ t.node = n /\ t.model = m
    BY <1>1 DEF RequestType, States
  <2>3. UNCHANGED <<now, reportVars, loadVars, until, fails>>
    BY <2>1 DEF Choose
  <2>. HIDE DEF t, q
  <2>. QED BY <1>1, <1>2, <1>3, <2>1, <2>2, <2>3, AsideStep
<1>4. CASE r \notin Managed
  <2>1. Begin(r, q, asked)
    BY <1>4 DEF Choose
  <2>2. <<n, m>> \in Candidates(r) /\ ~Saturated(n, m)
    BY DEF Choose
  <2>3. inflight[n] < MaxInflight[n] /\ (MaxParallel[m] # 0 => inflightModels[n][m] < MaxParallel[m])
    <3>1. /\ inflight[n] \in Nat /\ inflightModels[n][m] \in Nat
          /\ MaxInflight[n] \in Nat /\ MaxParallel[m] \in Nat /\ ThrottledMax \in Nat
      BY CapAssumption DEF IInv, TypeOK
    <3>2. EffectiveMax(n) \in Nat /\ EffectiveMax(n) <= MaxInflight[n]
      BY <3>1 DEF EffectiveMax, SmallerOf
    <3>. QED BY <2>2, <3>1, <3>2 DEF Saturated, Full
  <2>4. asked[n] = "half_open" => inflight[n] = 0
    BY <2>2 DEF Candidates, Allows
  <2>5. UNCHANGED <<now, reportVars, until, fails>>
    BY DEF Choose
  <2>6. /\ DeferredOnly' /\ Bookkeeping' /\ OrdinaryWithinLimits' /\ OneOrdinaryProbe'
        /\ req' \in [Requests -> RequestType]
        /\ \A s \in (In(Placed))' : req'[s].node \in Nodes /\ req'[s].model \in Models
        /\ inflight' \in [Nodes -> Nat] /\ inflightModels' \in [Nodes -> [Models -> Nat]]
        /\ loading' \in [Nodes -> SUBSET Models]
    <3>. HIDE DEF q, asked
    <3>. QED BY <1>1, <1>4, <2>1, <2>3, <2>4, BeginStarts
  <2>7. TypeOK'
    BY <1>2, <2>5, <2>6 DEF IInv, TypeOK, reportVars
  <2>. QED BY <2>6, <2>7 DEF IInv
<1>. QED BY <1>3, <1>4

LEMMA StartDeferredPreserves ==
    ASSUME IInv, NEW r \in Requests, StartDeferred(r)
    PROVE  IInv'
<1>1. /\ req[r] \in RequestType /\ req[r].node \in Nodes /\ req[r].model \in Models
      /\ r \notin Active /\ r \in Managed
  BY DEF StartDeferred, IInv, TypeOK, DeferredOnly, Active, In, Placed
<1>2. Begin(r, req[r], breaker) /\ UNCHANGED <<now, reportVars, breakerVars>>
  BY DEF StartDeferred
<1>3. /\ DeferredOnly' /\ Bookkeeping' /\ OrdinaryWithinLimits' /\ OneOrdinaryProbe'
      /\ req' \in [Requests -> RequestType]
      /\ \A s \in (In(Placed))' : req'[s].node \in Nodes /\ req'[s].model \in Models
      /\ inflight' \in [Nodes -> Nat] /\ inflightModels' \in [Nodes -> [Models -> Nat]]
      /\ loading' \in [Nodes -> SUBSET Models]
  <2>. DEFINE q == req[r]
              asked == breaker
  <2>1. q \in RequestType /\ q.node \in Nodes /\ q.model \in Models /\ Begin(r, q, asked)
    BY <1>1, <1>2
  <2>. HIDE DEF q, asked
  <2>. QED BY <1>1, <2>1, BeginStarts
<1>4. TypeOK'
  BY <1>2, <1>3 DEF IInv, TypeOK, reportVars, breakerVars
<1>. QED BY <1>3, <1>4 DEF IInv

LEMMA FinishPreserves ==
    ASSUME IInv, NEW r \in Requests, NEW next \in {Answered, Again(req[r])},
           req[r].st \in {"running", "failing"}, Finish(r, next),
           UNCHANGED <<online, throttled, reports, until>>,
           offers' \in [Nodes -> SUBSET Models],
           breaker' \in [Nodes -> {"closed", "open", "half_open"}],
           fails' \in [Nodes -> SUBSET (Nat \X Requests)]
    PROVE  IInv'
<1>1. next \in RequestType /\ next.st \in {"select", "answered"} /\ r \in Active
  <2>1. req[r] \in RequestType
    BY DEF IInv, TypeOK
  <2>2. CASE next = Answered
    BY <2>2 DEF Answered, Fresh, RequestType, States, NotQueued, Active, In
  <2>3. CASE next = Again(req[r])
    BY <2>1, <2>3 DEF Again, RequestType, States, Active, In
  <2>. QED BY <2>2, <2>3
<1>2. /\ DeferredOnly' /\ Bookkeeping' /\ OrdinaryWithinLimits' /\ OneOrdinaryProbe'
      /\ now' \in Nat /\ req' \in [Requests -> RequestType]
      /\ \A s \in (In(Placed))' : req'[s].node \in Nodes /\ req'[s].model \in Models
      /\ inflight' \in [Nodes -> Nat] /\ inflightModels' \in [Nodes -> [Models -> Nat]]
      /\ loading' \in [Nodes -> SUBSET Models]
  BY <1>1, FinishEnds
<1>3. TypeOK'
  BY <1>2 DEF IInv, TypeOK
<1>. QED BY <1>2, <1>3 DEF IInv

\* Every step that moves one request outside an attempt.
LEMMA WaitingPreserves ==
    ASSUME IInv, NEW r \in Requests,
           \/ Arrive(r) \/ NoCandidate(r) \/ Reselect(r) \/ Refused(r) \/ Disconnect(r)
           \/ \E n \in Nodes, m \in Models : WaitForSlot(r, n, m)
    PROVE  IInv'
<1>. USE DEF IInv
<1>1. req[r] \in RequestType /\ now \in Nat /\ req \in [Requests -> RequestType]
      /\ breaker \in [Nodes -> {"closed", "open", "half_open"}]
  BY DEF TypeOK
<1>2. Answered \in RequestType /\ Answered.st = "answered"
  BY DEF Answered, Fresh, RequestType, States, NotQueued
<1>3. Again(req[r]) \in RequestType /\ Again(req[r]).st = "select"
  BY <1>1, AgainType
<1>4. Queued(req[r]) \in Nat
  BY <1>1 DEF Queued, RequestType
<1>. DEFINE Moves(q) ==
        /\ req' = [req EXCEPT ![r] = q] /\ q \in RequestType
        /\ q.st \notin {"running", "failing", "target"}
        /\ q.st \in Placed => q.node \in Nodes /\ q.model \in Models
<1>5. ASSUME r \notin Active, \E q \in RequestType : Moves(q),
             breaker' \in [Nodes -> {"closed", "open", "half_open"}],
             UNCHANGED <<now, reportVars, loadVars, until, fails>>
      PROVE  IInv'
  BY <1>5, AsideStep
<1>6. CASE Arrive(r)
  <2>. DEFINE q == [Fresh EXCEPT !.st = "select", !.deadline = now + MaxWait[Class[r]]]
  <2>1. now + MaxWait[Class[r]] \in Nat
    BY <1>1, RequestAssumption
  <2>2. q \in RequestType /\ q.st = "select" /\ req' = [req EXCEPT ![r] = q]
    BY <1>6, <2>1 DEF Arrive, Fresh, RequestType, States, NotQueued
  <2>3. Moves(q)
    BY <2>2 DEF Placed
  <2>4. r \notin Active
    BY <1>6 DEF Arrive, Active, In
  <2>5. UNCHANGED <<now, reportVars, loadVars, breakerVars>>
    BY <1>6 DEF Arrive
  <2>. HIDE DEF Moves, q
  <2>. QED BY <1>1, <1>5, <2>2, <2>3, <2>4, <2>5 DEF breakerVars
<1>7. CASE Reselect(r)
  <2>1. Moves(Again(req[r]))
    BY <1>3, <1>7 DEF Reselect, Placed
  <2>2. r \notin Active
    BY <1>7 DEF Reselect, Active, In
  <2>3. UNCHANGED <<now, reportVars, loadVars, breakerVars>>
    BY <1>7 DEF Reselect
  <2>. HIDE DEF Moves
  <2>. QED BY <1>1, <1>3, <1>5, <2>1, <2>2, <2>3 DEF breakerVars
<1>8. CASE Refused(r) \/ Disconnect(r)
  <2>1. Moves(Answered)
    BY <1>2, <1>8 DEF Refused, Disconnect, Placed
  <2>2. r \notin Active
    BY <1>8 DEF Refused, Disconnect, Active, In
  <2>3. UNCHANGED <<now, reportVars, loadVars, breakerVars>>
    BY <1>8 DEF Refused, Disconnect
  <2>. HIDE DEF Moves
  <2>. QED BY <1>1, <1>2, <1>5, <2>1, <2>2, <2>3 DEF breakerVars
<1>9. CASE NoCandidate(r)
  <2>1. \E q \in RequestType : Moves(q)
    <3>1. CASE req' = [req EXCEPT ![r] = Answered]
      BY <1>2, <3>1 DEF Placed
    <3>2. ASSUME NEW n \in Nodes, req' = [req EXCEPT ![r] = [req[r] EXCEPT
                                                 !.st = "waking", !.node = n, !.woke = TRUE]]
          PROVE  \E q \in RequestType : Moves(q)
      <4>. DEFINE q == [req[r] EXCEPT !.st = "waking", !.node = n, !.woke = TRUE]
      <4>1. q \in RequestType /\ q.st = "waking" /\ req' = [req EXCEPT ![r] = q]
        BY <1>1, <3>2 DEF RequestType, States
      <4>. QED BY <4>1 DEF Placed
    <3>3. CASE \E l \in LoadsFor(r) \ req[r].loads :
                  req' = [req EXCEPT ![r] = [req[r] EXCEPT
                          !.st = "loadwait", !.node = l[1], !.model = l[2],
                          !.loads = @ \cup {l}, !.enq = Queued(req[r])]]
      <4>1. PICK l \in LoadsFor(r) \ req[r].loads :
                  req' = [req EXCEPT ![r] = [req[r] EXCEPT
                          !.st = "loadwait", !.node = l[1], !.model = l[2],
                          !.loads = @ \cup {l}, !.enq = Queued(req[r])]]
        BY <3>3
      <4>. DEFINE q == [req[r] EXCEPT !.st = "loadwait", !.node = l[1], !.model = l[2],
                          !.loads = @ \cup {l}, !.enq = Queued(req[r])]
      <4>2. l \in Nodes \X Models
        BY DEF LoadsFor, Reached
      <4>3. q \in RequestType /\ q.st = "loadwait" /\ q.node \in Nodes /\ q.model \in Models
        BY <1>1, <1>4, <4>2 DEF RequestType, States
      <4>4. req' = [req EXCEPT ![r] = q]
        BY <4>1
      <4>. HIDE DEF q
      <4>. QED BY <4>3, <4>4
    <3>. QED BY <1>9, <3>1, <3>2, <3>3 DEF NoCandidate
  <2>2. r \notin Active
    BY <1>9 DEF NoCandidate, Active, In
  <2>3. /\ UNCHANGED <<now, reportVars, loadVars, until, fails>>
        /\ breaker' \in [Nodes -> {"closed", "open", "half_open"}]
    BY <1>9, AskedType DEF NoCandidate
  <2>. HIDE DEF Moves
  <2>. QED BY <1>5, <2>1, <2>2, <2>3
<1>10. CASE \E n \in Nodes, m \in Models : WaitForSlot(r, n, m)
  <2>1. PICK n \in Nodes, m \in Models : WaitForSlot(r, n, m)
    BY <1>10
  <2>2. \E q \in RequestType : Moves(q)
    <3>. DEFINE q == [req[r] EXCEPT !.st = "waiting", !.node = n, !.model = m,
                                    !.enq = Queued(req[r])]
    <3>1. q \in RequestType /\ q.st = "waiting" /\ q.node = n /\ q.model = m
      BY <1>1, <1>4 DEF RequestType, States
    <3>2. req' = [req EXCEPT ![r] = Answered] \/ req' = [req EXCEPT ![r] = q]
      BY <2>1 DEF WaitForSlot
    <3>. QED BY <1>2, <3>1, <3>2 DEF Placed
  <2>3. r \notin Active
    BY <2>1 DEF WaitForSlot, Active, In
  <2>4. /\ UNCHANGED <<now, reportVars, loadVars, until, fails>>
        /\ breaker' \in [Nodes -> {"closed", "open", "half_open"}]
    BY <2>1, AskedType DEF WaitForSlot
  <2>. HIDE DEF Moves
  <2>. QED BY <1>5, <2>2, <2>3, <2>4
<1>. QED BY <1>6, <1>7, <1>8, <1>9, <1>10

\* Every end of an attempt, and _fail before it.
LEMMA RelayPreserves ==
    ASSUME IInv, NEW r \in Requests,
           Fail(r) \/ FinishOk(r) \/ FinishFailed(r) \/ FinishNotFound(r) \/ FinishNeutral(r)
    PROVE  IInv'
<1>1. CASE Fail(r)
  <2>. DEFINE n == req[r].node
              inWindow == {f \in fails[n] : now - f[1] <= WindowS} \cup {<<now, r>>}
              opens == breaker[n] = "half_open" \/ Cardinality(inWindow) >= Failures
              q == [req[r] EXCEPT !.st = "failing"]
  <2>1. req[r] \in RequestType /\ req[r].st = "running" /\ n \in Nodes /\ now \in Nat
    BY <1>1 DEF Fail, IInv, TypeOK, In, Placed
  <2>2. /\ req' = [req EXCEPT ![r].st = "failing"]
        /\ fails' = [fails EXCEPT ![n] = IF opens THEN {} ELSE inWindow]
        /\ breaker' = [breaker EXCEPT ![n] = IF opens THEN "open" ELSE @]
        /\ until' = [until EXCEPT ![n] = IF opens THEN now + OpenS ELSE @]
        /\ UNCHANGED <<now, reportVars, loadVars>>
    BY <1>1 DEF Fail
  <2>3. q \in RequestType /\ q.st = "failing" /\ q.node = req[r].node /\ q.model = req[r].model
        /\ q.probe = req[r].probe
    BY <2>1 DEF RequestType, States
  <2>4. req' = [req EXCEPT ![r] = q] /\ \A s \in Requests : req'[s] = IF s = r THEN q ELSE req[s]
    BY <2>2 DEF IInv, TypeOK
  <2>5. \A s \in Requests : Kept(s)
    BY <2>1, <2>3, <2>4 DEF Kept, Active, In
  <2>6. UNCHANGED <<inflight, inflightModels>>
    BY <2>2 DEF loadVars
  <2>7. Bookkeeping' /\ OrdinaryWithinLimits' /\ OneOrdinaryProbe'
    BY <2>5, <2>6, NoneMoves
  <2>8. DeferredOnly'
    BY <2>3, <2>4 DEF IInv, DeferredOnly, In
  <2>9. TypeOK'
    <3>1. req' \in [Requests -> RequestType]
      BY <2>3, <2>4 DEF IInv, TypeOK
    <3>2. \A s \in (In(Placed))' : req'[s].node \in Nodes /\ req'[s].model \in Models
      BY <2>1, <2>3, <2>4 DEF IInv, TypeOK, In, Placed
    <3>3. inWindow \in SUBSET (Nat \X Requests)
      BY <2>1 DEF IInv, TypeOK
    <3>4. fails' \in [Nodes -> SUBSET (Nat \X Requests)]
      <4>. HIDE DEF inWindow
      <4>. QED BY <2>2, <3>3 DEF IInv, TypeOK
    <3>5. until' \in [Nodes -> Nat]
      <4>. HIDE DEF opens
      <4>. QED BY <2>1, <2>2, TimeAssumption DEF IInv, TypeOK
    <3>6. breaker' \in [Nodes -> {"closed", "open", "half_open"}]
      <4>. HIDE DEF opens
      <4>. QED BY <2>2 DEF IInv, TypeOK
    <3>. QED BY <2>2, <3>1, <3>2, <3>4, <3>5, <3>6 DEF IInv, TypeOK, reportVars, loadVars
  <2>. QED BY <2>7, <2>8, <2>9 DEF IInv
<1>2. CASE FinishOk(r)
  <2>1. breaker' \in [Nodes -> {"closed", "open", "half_open"}]
        /\ fails' \in [Nodes -> SUBSET (Nat \X Requests)]
    BY <1>2 DEF FinishOk, IInv, TypeOK
  <2>2. /\ UNCHANGED <<until, online, offers, throttled, reports>>
        /\ req[r].st = "running" /\ Finish(r, Answered)
    BY <1>2 DEF FinishOk, reportVars
  <2>3. offers' \in [Nodes -> SUBSET Models]
    BY <2>2 DEF IInv, TypeOK
  <2>. QED BY <2>1, <2>2, <2>3, FinishPreserves
<1>3. CASE FinishFailed(r) \/ FinishNeutral(r)
  <2>1. /\ UNCHANGED <<breaker, fails, until, online, offers, throttled, reports>>
        /\ req[r].st \in {"running", "failing"}
        /\ Finish(r, Again(req[r])) \/ Finish(r, Answered)
    BY <1>3 DEF FinishFailed, FinishNeutral, breakerVars, reportVars
  <2>2. /\ offers' \in [Nodes -> SUBSET Models]
        /\ breaker' \in [Nodes -> {"closed", "open", "half_open"}]
        /\ fails' \in [Nodes -> SUBSET (Nat \X Requests)]
    BY <2>1 DEF IInv, TypeOK
  <2>. QED BY <2>1, <2>2, FinishPreserves
<1>4. CASE FinishNotFound(r)
  <2>1. /\ UNCHANGED <<breaker, fails, until, online, throttled, reports>>
        /\ req[r].st = "running" /\ (Finish(r, Again(req[r])) \/ Finish(r, Answered))
        /\ offers' = [offers EXCEPT ![req[r].node] = @ \ {req[r].model}]
    BY <1>4 DEF FinishNotFound, breakerVars
  <2>2. /\ offers' \in [Nodes -> SUBSET Models]
        /\ breaker' \in [Nodes -> {"closed", "open", "half_open"}]
        /\ fails' \in [Nodes -> SUBSET (Nat \X Requests)]
    BY <2>1 DEF IInv, TypeOK
  <2>. QED BY <2>1, <2>2, FinishPreserves
<1>. QED BY <1>1, <1>2, <1>3, <1>4

\* Node reports, the clock and the end of the run do not touch the requests.
LEMMA EnvironmentPreserves ==
    ASSUME IInv, Tick \/ UNCHANGED vars \/ \E n \in Nodes : NodeStep(n)
    PROVE  IInv'
<1>1. UNCHANGED <<req, inflight, inflightModels>>
  BY DEF Tick, vars, NodeStep, Report, GoOffline, ComeOnline, LoadOver, loadVars
<1>2. \A s \in Requests : Kept(s)
  BY <1>1 DEF Kept, Active, In
<1>3. Bookkeeping' /\ OrdinaryWithinLimits' /\ OneOrdinaryProbe'
  BY <1>1, <1>2, NoneMoves
<1>4. DeferredOnly'
  BY <1>1 DEF IInv, DeferredOnly, In
<1>5. TypeOK'
  <2>. USE DEF IInv, TypeOK, In, reportVars, loadVars, breakerVars
  <2>1. CASE Tick
    BY <2>1 DEF Tick
  <2>2. CASE UNCHANGED vars
    BY <2>2 DEF vars
  <2>3. CASE \E n \in Nodes : Report(n)
    BY <2>3, OfferedAssumption DEF Report
  <2>4. CASE \E n \in Nodes : GoOffline(n)
    BY <2>4 DEF GoOffline
  <2>5. CASE \E n \in Nodes : ComeOnline(n)
    BY <2>5, OfferedAssumption DEF ComeOnline
  <2>6. CASE \E n \in Nodes, m \in Models : LoadOver(n, m)
    BY <2>6 DEF LoadOver
  <2>. QED BY <2>1, <2>2, <2>3, <2>4, <2>5, <2>6 DEF NodeStep
<1>. QED BY <1>3, <1>4, <1>5 DEF IInv

LEMMA Inductive == IInv /\ [Next]_vars => IInv'
<1>. SUFFICES ASSUME IInv, [Next]_vars PROVE IInv'
  OBVIOUS
<1>1. CASE UNCHANGED vars \/ Tick \/ Quiescent \/ \E n \in Nodes : NodeStep(n)
  BY <1>1, EnvironmentPreserves DEF Quiescent
<1>2. ASSUME NEW r \in Requests, Arrive(r) \/ RequestStep(r) \/ Disconnect(r) PROVE IInv'
  <2>1. CASE \E n \in Nodes, m \in Models : Choose(r, n, m)
    BY <2>1, ChoosePreserves
  <2>2. CASE StartDeferred(r)
    BY <2>2, StartDeferredPreserves
  <2>3. CASE Fail(r) \/ FinishOk(r) \/ FinishFailed(r) \/ FinishNotFound(r) \/ FinishNeutral(r)
    BY <2>3, RelayPreserves
  <2>4. CASE \/ Arrive(r) \/ NoCandidate(r) \/ Reselect(r) \/ Refused(r) \/ Disconnect(r)
             \/ \E n \in Nodes, m \in Models : WaitForSlot(r, n, m)
    BY <2>4, WaitingPreserves
  <2>. QED BY <1>2, <2>1, <2>2, <2>3, <2>4 DEF RequestStep
<1>. QED BY <1>1, <1>2 DEF Next

\* The state of requests and nodes keeps its type, and the inductive invariant
\* behind the three theorems below holds: Spec => []IInv.
THEOREM Invariance == Spec => []IInv
BY Initially, Inductive, PTL DEF Spec

\* The type invariant of the admission state (proxy._Relay, nodes.Node).
THEOREM TypeCorrect == Spec => []TypeOK
<1>1. IInv => TypeOK
  BY DEF IInv
<1>. QED BY <1>1, Invariance, PTL

\* _begin and _finish pair up: inflight is exactly the attempts that run.
THEOREM CountsAreExact == Spec => []Bookkeeping
<1>1. IInv => Bookkeeping
  BY DEF IInv
<1>. QED BY <1>1, Invariance, PTL

\* Ordinary requests respect max_inflight and max_parallel, for any number of
\* requests, nodes and models (admission.saturated, checked before _begin).
THEOREM OrdinaryLimits == Spec => []OrdinaryWithinLimits
<1>1. IInv => OrdinaryWithinLimits
  BY DEF IInv
<1>. QED BY <1>1, Invariance, PTL

\* Ordinary requests probe a half-open breaker one at a time (breaker_allows).
THEOREM ProbesAreAlone == Spec => []OneOrdinaryProbe
<1>1. IInv => OneOrdinaryProbe
  BY DEF IInv
<1>. QED BY <1>1, Invariance, PTL

\* No ordinary request starts on a node with an open breaker, nor beside
\* another request on a half-open one (candidates_for).
THEOREM StartsAreAllowed == Spec => StartOnlyWhereAllowed
<1>1. ASSUME IInv, [Next]_vars, NEW r \in Requests \ Managed,
             req[r].st # "running", req'[r].st = "running"
      PROVE  \E n \in Nodes, m \in Models : Choose(r, n, m)
  <2>1. req \in [Requests -> RequestType]
    BY <1>1 DEF IInv, TypeOK
  <2>0. \A s \in Requests :
           /\ Answered \in RequestType /\ Answered.st = "answered"
           /\ Again(req[s]) \in RequestType /\ Again(req[s]).st = "select"
    <3>1. Answered \in RequestType /\ Answered.st = "answered"
      BY DEF Answered, Fresh, RequestType, States, NotQueued
    <3>2. \A s \in Requests : Again(req[s]) \in RequestType /\ Again(req[s]).st = "select"
      BY <2>1, AgainType
    <3>. QED BY <3>1, <3>2
  <2>2. \A s \in Requests : req[s].st = "target" => s \in Managed
    BY <1>1 DEF IInv, DeferredOnly, In
  <2>3. ASSUME NEW s \in Requests, NEW q, req' = [req EXCEPT ![s] = q], q.st # "running"
        PROVE  FALSE
    BY <1>1, <2>1, <2>3
  <2>4. CASE UNCHANGED req
    BY <1>1, <2>4
  <2>5. ASSUME NEW s \in Requests, NEW next \in {Answered, Again(req[s])}, Finish(s, next)
        PROVE  FALSE
    <3>1. next \in RequestType /\ next.st # "running"
      BY <2>0, <2>5
    <3>. DEFINE rs == [req EXCEPT ![s] = next]
                n == req[s].node
                t == inflight'[req[s].node]
                o == inflightModels'[req[s].node]
    <3>2. rs \in [Requests -> RequestType] /\ rs[r].st # "running"
      BY <1>1, <2>1, <3>1
    <3>3. req' \in AfterRelease(rs, n, t, o)
      BY <2>5 DEF Finish
    <3>4. \/ req'[r] = rs[r]
          \/ rs[r].st = "waiting" /\ req'[r] = [rs[r] EXCEPT !.st = "woken"]
      <4>. HIDE DEF rs, n, t, o
      <4>. QED BY <1>1, <3>2, <3>3, ReleaseWakes
    <3>5. rs[r] \in RequestType
      BY <3>2
    <3>. HIDE DEF rs
    <3>. QED BY <1>1, <3>2, <3>4, <3>5 DEF RequestType
  <2>6. ASSUME NEW s \in Requests, Arrive(s) \/ RequestStep(s) \/ Disconnect(s)
        PROVE  \E n \in Nodes, m \in Models : Choose(r, n, m)
    <3>1. CASE s # r /\ ~(\E next \in {Answered, Again(req[s])} : Finish(s, next))
      BY <1>1, <2>1, <2>6, <3>1 DEF Arrive, RequestStep, Disconnect, Choose, WaitForSlot,
         NoCandidate, Reselect, StartDeferred, Refused, Fail, FinishOk, FinishFailed,
         FinishNotFound, FinishNeutral, Begin
    <3>2. CASE \E next \in {Answered, Again(req[s])} : Finish(s, next)
      BY <2>5, <3>2
    <3>3. CASE s = r /\ ~(\E next \in {Answered, Again(req[s])} : Finish(s, next))
      <4>1. ~Reselect(r) /\ ~Refused(r) /\ ~Disconnect(r)
        BY <1>1, <2>0, <2>1 DEF Reselect, Refused, Disconnect
      <4>5. ~Arrive(r)
        <5>1. \A d : [Fresh EXCEPT !.st = "select", !.deadline = d].st = "select"
          BY DEF Fresh
        <5>. QED BY <1>1, <2>1, <5>1 DEF Arrive
      <4>2. ~StartDeferred(r) /\ ~Fail(r)
        BY <1>1, <2>1, <2>2 DEF StartDeferred, Fail
      <4>3. ~NoCandidate(r)
        <5>1. ASSUME NEW q, req' = [req EXCEPT ![r] = q], q.st # "running" PROVE FALSE
          BY <1>1, <2>1, <5>1
        <5>2. ASSUME NEW l, NEW k, NEW e,
                     req' = [req EXCEPT ![r] = [req[r] EXCEPT !.st = "loadwait",
                               !.node = l[1], !.model = l[2], !.loads = k, !.enq = e]]
              PROVE  FALSE
          <6>. DEFINE q == [req[r] EXCEPT !.st = "loadwait", !.node = l[1], !.model = l[2],
                                          !.loads = k, !.enq = e]
          <6>1. q.st = "loadwait" /\ req' = [req EXCEPT ![r] = q]
            BY <2>1, <5>2 DEF RequestType
          <6>. HIDE DEF q
          <6>. QED BY <5>1, <6>1
        <5>3. ASSUME NEW n, req' = [req EXCEPT ![r] = [req[r] EXCEPT !.st = "waking", !.node = n,
                                                                     !.woke = TRUE]]
              PROVE  FALSE
          <6>. DEFINE q == [req[r] EXCEPT !.st = "waking", !.node = n, !.woke = TRUE]
          <6>1. q.st = "waking" /\ req' = [req EXCEPT ![r] = q]
            BY <2>1, <5>3 DEF RequestType
          <6>. HIDE DEF q
          <6>. QED BY <5>1, <6>1
        <5>4. ASSUME req' = [req EXCEPT ![r] = Answered] PROVE FALSE
          BY <2>0, <5>1, <5>4
        <5>. QED BY <5>2, <5>3, <5>4 DEF NoCandidate
      <4>4. \A n \in Nodes, m \in Models : ~WaitForSlot(r, n, m)
        <5>1. ASSUME NEW q, req' = [req EXCEPT ![r] = q], q.st # "running" PROVE FALSE
          BY <1>1, <2>1, <5>1
        <5>2. ASSUME NEW n, NEW m, NEW e,
                     req' = [req EXCEPT ![r] = [req[r] EXCEPT !.st = "waiting", !.node = n,
                                                              !.model = m, !.enq = e]]
              PROVE  FALSE
          <6>. DEFINE q == [req[r] EXCEPT !.st = "waiting", !.node = n, !.model = m, !.enq = e]
          <6>1. q.st = "waiting" /\ req' = [req EXCEPT ![r] = q]
            BY <2>1, <5>2 DEF RequestType
          <6>. HIDE DEF q
          <6>. QED BY <5>1, <6>1
        <5>3. ASSUME req' = [req EXCEPT ![r] = Answered] PROVE FALSE
          BY <2>0, <5>1, <5>3
        <5>4. ASSUME NEW n \in Nodes, NEW m \in Models, WaitForSlot(r, n, m) PROVE FALSE
          <6>1. \/ req' = [req EXCEPT ![r] = Answered]
                \/ req' = [req EXCEPT ![r] = [req[r] EXCEPT !.st = "waiting", !.node = n,
                                               !.model = m, !.enq = Queued(req[r])]]
            <7>1. CASE now >= req[r].deadline \/ Cardinality(Waiting) >= MaxQueue
              BY <5>4, <7>1 DEF WaitForSlot
            <7>2. CASE ~(now >= req[r].deadline \/ Cardinality(Waiting) >= MaxQueue)
              BY <5>4, <7>2 DEF WaitForSlot
            <7>. QED BY <7>1, <7>2
          <6>. QED BY <5>2, <5>3, <6>1
        <5>. QED BY <5>4
      <4>. QED BY <2>6, <3>3, <4>1, <4>2, <4>3, <4>4, <4>5
               DEF RequestStep, FinishOk, FinishFailed, FinishNotFound, FinishNeutral
    <3>. QED BY <3>1, <3>2, <3>3
  <2>. QED BY <1>1, <2>4, <2>6 DEF Next, Tick, Quiescent, vars, NodeStep, Report, GoOffline,
          ComeOnline, LoadOver
<1>2. ASSUME IInv, NEW r \in Requests \ Managed, NEW n \in Nodes, NEW m \in Models,
             Choose(r, n, m)
      PROVE  StartAllowed(r)
  <2>1. req'[r].node = n
    <3>. DEFINE q == [req[r] EXCEPT !.node = n, !.model = m, !.tried = @ \cup {n}]
                p == [q EXCEPT !.st = "running", !.probe = BreakerAsked(r)[q.node] = "half_open"]
    <3>1. req[r] \in RequestType /\ req \in [Requests -> RequestType]
      BY <1>2 DEF IInv, TypeOK
    <3>2. q.node = n /\ p.node = n
      BY <3>1 DEF RequestType
    <3>3. req' = [req EXCEPT ![r] = p]
      BY <1>2 DEF Choose, Begin
    <3>. HIDE DEF p
    <3>. QED BY <3>1, <3>2, <3>3
  <2>2. breaker' = BreakerAsked(r) /\ <<n, m>> \in Candidates(r)
    BY <1>2 DEF Choose
  <2>3. breaker'[n] = "closed" \/ (breaker'[n] = "half_open" /\ inflight[n] = 0)
    BY <2>2 DEF Candidates, Allows
  <2>. QED BY <2>1, <2>3 DEF StartAllowed
<1>3. IInv /\ [Next]_vars => [\A r \in Requests \ Managed : StartAllowed(r)]_vars
  BY <1>1, <1>2 DEF StartAllowed
<1>. QED BY <1>3, Invariance, PTL DEF Spec, StartOnlyWhereAllowed

\* Only the release at the end of an attempt wakes a waiter.
LEMMA OnlyReleaseWakes ==
    ASSUME IInv, [Next]_vars, NEW w \in Requests, req[w].st = "waiting", req'[w].st = "woken"
    PROVE  \E s \in Requests, next \in RequestType :
              next.st \in {"select", "answered"} /\ Finish(s, next)
<1>1. req \in [Requests -> RequestType]
  BY DEF IInv, TypeOK
<1>2. \A s \in Requests :
         /\ Answered \in RequestType /\ Answered.st = "answered"
         /\ Again(req[s]) \in RequestType /\ Again(req[s]).st = "select"
  <2>1. Answered \in RequestType /\ Answered.st = "answered"
    BY DEF Answered, Fresh, RequestType, States, NotQueued
  <2>2. \A s \in Requests : Again(req[s]) \in RequestType /\ Again(req[s]).st = "select"
    BY <1>1, AgainType
  <2>. QED BY <2>1, <2>2
<1>3. CASE \E s \in Requests : \E next \in {Answered, Again(req[s])} : Finish(s, next)
  BY <1>2, <1>3
<1>4. CASE ~(\E s \in Requests : \E next \in {Answered, Again(req[s])} : Finish(s, next))
  <2>1. ASSUME NEW s \in Requests, NEW q, req' = [req EXCEPT ![s] = q], req[s].st # "waiting"
        PROVE  FALSE
    BY <1>1, <2>1
  <2>2. ASSUME NEW s \in Requests, NEW q, req' = [req EXCEPT ![s] = q], q.st # "woken"
        PROVE  FALSE
    BY <1>1, <2>2
  <2>3. ASSUME NEW s \in Requests PROVE ~Disconnect(s) /\ ~Reselect(s) /\ ~Refused(s)
    BY <1>2, <2>2 DEF Disconnect, Reselect, Refused
  <2>4. ASSUME NEW s \in Requests PROVE ~Arrive(s)
    BY <2>1 DEF Arrive
  <2>5. ASSUME NEW s \in Requests, RequestStep(s) PROVE FALSE
    <3>1. \A n \in Nodes, m \in Models : ~Choose(s, n, m)
      <4>1. ASSUME NEW n \in Nodes, NEW m \in Models, Choose(s, n, m)
            PROVE  req[s].st = "select" /\ \E q : req' = [req EXCEPT ![s] = q]
        BY <4>1 DEF Choose, Begin
      <4>. QED BY <2>1, <4>1
    <3>2. \A n \in Nodes, m \in Models : ~WaitForSlot(s, n, m)
      <4>1. ASSUME NEW n \in Nodes, NEW m \in Models, WaitForSlot(s, n, m)
            PROVE  req[s].st = "select" /\ \E q : req' = [req EXCEPT ![s] = q]
        BY <4>1 DEF WaitForSlot
      <4>. QED BY <2>1, <4>1
    <3>3. ~NoCandidate(s)
      <4>1. ASSUME NoCandidate(s) PROVE \E q : req' = [req EXCEPT ![s] = q]
        <5>1. CASE \E l : req' = [req EXCEPT ![s] = [req[s] EXCEPT
                              !.st = "loadwait", !.node = l[1], !.model = l[2],
                              !.loads = @ \cup {l}, !.enq = Queued(req[s])]]
          BY <5>1, Zenon
        <5>2. CASE \E n : req' = [req EXCEPT ![s] = [req[s] EXCEPT
                              !.st = "waking", !.node = n, !.woke = TRUE]]
          BY <5>2, Zenon
        <5>3. CASE req' = [req EXCEPT ![s] = Answered]
          BY <5>3, Zenon
        <5>. QED BY <4>1, <5>1, <5>2, <5>3 DEF NoCandidate
      <4>. QED BY <2>1, <4>1 DEF NoCandidate
    <3>4. ~StartDeferred(s)
      BY <2>1 DEF StartDeferred, Begin
    <3>5. ~Fail(s)
      BY <1>1, <2>1 DEF Fail
    <3>. QED BY <1>4, <2>3, <2>5, <3>1, <3>2, <3>3, <3>4, <3>5
             DEF RequestStep, FinishOk, FinishFailed, FinishNotFound, FinishNeutral
  <2>6. ~UNCHANGED req
    OBVIOUS
  <2>. QED BY <2>3, <2>4, <2>5, <2>6 DEF Next, Tick, Quiescent, vars, NodeStep, Report,
          GoOffline, ComeOnline, LoadOver
<1>. QED BY <1>3, <1>4

\* Of two waiters of one node and model, release passes none over in favour of
\* one that came more than two aging periods later (admission.rank_key).
THEOREM AgingBounds == Spec => AgingBeatsClass
<1>1. ASSUME IInv, [Next]_vars, NEW w \in Requests, NEW v \in Requests,
             req[w].st = "waiting", req'[w].st = "woken",
             req[v].st = "waiting", req'[v].st = "waiting",
             req[v].node = req[w].node, req[v].model = req[w].model
      PROVE  req[w].enq <= req[v].enq + 2 * AgingS
  <2>1. req \in [Requests -> RequestType]
    BY <1>1 DEF IInv, TypeOK
  <2>2. PICK s \in Requests, next \in RequestType :
           next.st \in {"select", "answered"} /\ Finish(s, next)
    BY <1>1, OnlyReleaseWakes
  <2>. DEFINE rs == [req EXCEPT ![s] = next]
              n == req[s].node
              t == inflight'[req[s].node]
              o == inflightModels'[req[s].node]
              free == {x \in Requests : /\ rs[x].st = "waiting" /\ rs[x].node = n
                                        /\ ~Full(n, rs[x].model, t, o[rs[x].model])}
              best == {x \in free : \A y \in free : ~Before(y, x)}
  <2>3. rs \in [Requests -> RequestType] /\ rs[s] = next
        /\ \A x \in Requests : x # s => rs[x] = req[x]
    BY <2>1
  <2>4. req' \in IF free = {} THEN {rs} ELSE {[rs EXCEPT ![x].st = "woken"] : x \in best}
    BY <2>2 DEF Finish, AfterRelease
  <2>5. rs[w].st # "woken" /\ rs[v].st # "woken"
    BY <1>1, <2>2, <2>3
  <2>6. w \in best /\ w # s
    <3>1. PICK x \in best : req' = [rs EXCEPT ![x].st = "woken"]
      <4>. HIDE DEF rs, n, t, o, free, best
      <4>. QED BY <1>1, <2>4, <2>5
    <3>2. x = w
      <4>. HIDE DEF rs, best
      <4>. QED BY <1>1, <2>3, <2>5, <3>1
    <3>3. rs[w].st = "waiting"
      BY <3>1, <3>2
    <3>. QED BY <2>2, <2>3, <3>1, <3>2, <3>3
  <2>7. v # s
    <3>0. free # {}
      BY <2>6
    <3>1. PICK x \in best : req' = [rs EXCEPT ![x].st = "woken"]
      <4>. HIDE DEF rs, free, best
      <4>. QED BY <2>4, <3>0
    <3>2. req'[v].st \in {rs[v].st, "woken"}
      <4>. HIDE DEF rs, best
      <4>. QED BY <2>3, <3>1 DEF RequestType
    <3>. QED BY <1>1, <2>2, <2>3, <3>2
  <2>8. v \in free
    <3>1. rs[w] = req[w] /\ rs[v] = req[v]
      BY <2>3, <2>6, <2>7
    <3>2. w \in free
      BY <2>6
    <3>. HIDE DEF rs, n, t, o
    <3>. QED BY <1>1, <3>1, <3>2
  <2>9. ~Before(v, w)
    BY <2>6, <2>8
  <2>10. /\ req[v].enq \in Int /\ req[w].enq \in Int
         /\ Class[v] \in 0..2 /\ Class[w] \in 0..2 /\ AgingS \in Nat
    BY <2>1, RequestAssumption, TimeAssumption DEF RequestType, NotQueued
  <2>. DEFINE cv == Class[v] * AgingS
              cw == Class[w] * AgingS
  <2>11. cv \in Int /\ cw \in Int /\ cv <= 2 * AgingS /\ cw >= 0
    <3>1. \A c \in 0..2 : c * AgingS \in Int /\ c * AgingS <= 2 * AgingS /\ c * AgingS >= 0
      <4>1. \A c \in 0..2 : c = 0 \/ c = 1 \/ c = 2
        OBVIOUS
      <4>2. 0 * AgingS = 0 /\ 1 * AgingS = AgingS /\ 2 * AgingS = AgingS + AgingS
        BY <2>10
      <4>. QED BY <2>10, <4>1, <4>2
    <3>. QED BY <2>10, <3>1
  <2>12. ~(cv + req[v].enq < cw + req[w].enq)
    BY <2>9 DEF Before, RankKey
  <2>. HIDE DEF cv, cw
  <2>. QED BY <2>10, <2>11, <2>12
<1>2. IInv /\ [Next]_vars =>
        [\A w, v \in Requests :
           (/\ req[w].st = "waiting" /\ req'[w].st = "woken"
            /\ req[v].st = "waiting" /\ req'[v].st = "waiting"
            /\ req[v].node = req[w].node /\ req[v].model = req[w].model)
           => req[w].enq <= req[v].enq + 2 * AgingS]_vars
  BY <1>1
<1>. QED BY <1>2, Invariance, PTL DEF Spec, AgingBeatsClass
=============================================================================
