--------------------------- MODULE Requests_proofs ---------------------------
(* Proofs about Requests, for any number of requests of any kind, any number of    *)
(* slots, any budget and any data classes; and about Access, at the end: who a     *)
(* client is, and what the login of the control port lets in.                      *)
EXTENDS Requests, Access, FiniteSetTheorems, SequenceTheorems, TLAPS

Waiting == {"new", "wait", "woken"}
PCs == Waiting \cup {"ended"} \cup Running
Answering == {"none", "ok", "refusal", "error", "replay", "gone"}

\* Where request r stands fits what it has chosen, what its client has heard and what
\* the provider got. Once a byte is out it is in an attempt or over.
Local(r) ==
    /\ pc[r] \in OnCandidate => cand[r] \in Candidates
    /\ pc[r] \in Waiting => ~open[r] /\ voice[r] = {}
    /\ open[r] => Kind[r].stream
    /\ open[r] /\ pc[r] # "ended" => pc[r] \in {"sent", "stream"}
    /\ open[r] /\ pc[r] = "sent" => cand[r] = "node"
    /\ pc[r] = "check" => NeedsCheck(Kind[r]) /\ ~Kind[r].secret /\ cand[r] = "cloud"
    /\ \/ voice[r] = {}
       \/ voice[r] = {cand[r]} /\ open[r]
       \/ pc[r] = "ended" /\ \E c \in Candidates : voice[r] = {c}
    /\ pc[r] \in {"wait", "woken"} => Kind[r].key
    /\ saw[r] = "raw" => ~Above(Kind[r]) /\ ~Kind[r].secret
    /\ saw[r] = "redacted" => NeedsCheck(Kind[r]) /\ ~Kind[r].hit /\ ~Kind[r].secret

\* A key is reserved by a request that runs; as long as nothing was spoiled, whatever
\* runs with a key has reserved it, who waits does so for it, and those who were woken
\* find its answer.
KeyHeld ==
    /\ entry.fut # None => Kind[entry.fut].key /\ pc[entry.fut] \in Running
    /\ entry.fut # None => entry.body = None
    /\ ~spoiled => \A r \in Requests :
                      /\ Kind[r].key /\ pc[r] \in Running => entry.fut = r
                      /\ pc[r] = "wait" => entry.fut # None /\ waits[r] = entry.fut
                      /\ pc[r] = "woken" => entry.body # None

IInv == TypeOK /\ (\A r \in Requests : Local(r)) /\ KeyHeld /\ OverspendIsBounded

----------------------------------------------------------------------------
(* What the steps do *)

\* The end of request r: the entry of its key is settled, repeats may be woken.
LEMMA EndsEffect ==
    ASSUME TypeOK, NEW r \in Requests, NEW a \in Answering, Ends(r, a)
    PROVE  /\ pc' \in [Requests -> PCs] /\ pc'[r] = "ended"
           /\ \A q \in Requests \ {r} :
                 \/ pc'[q] = pc[q]
                 \/ Kind[r].key /\ entry.fut # None /\ pc[q] = "wait" /\ pc'[q] = "woken"
           /\ Kind[r].key /\ entry.fut # None =>
                 \A q \in Requests \ {r} : pc[q] = "wait" /\ waits[q] = entry.fut => pc'[q] = "woken"
           /\ answer' \in [Requests -> Answering]
           /\ cand' \in [Requests -> Candidates \cup {None}] /\ cand'[r] = None
           /\ \A q \in Requests \ {r} : cand'[q] = cand[q]
           /\ bill' \in Nat /\ bill' = IF cand[r] = "cloud" /\ a = "ok" THEN bill + 1 ELSE bill
           /\ UNCHANGED <<waits, tried, open>>
           /\ entry' \in [fut : Requests \cup {None}, body : Requests \cup {None}]
           /\ spoiled' \in BOOLEAN
           /\ ~Kind[r].key => UNCHANGED <<entry, spoiled>>
           /\ Kind[r].key => /\ entry'.fut = None
                             /\ ~spoiled' => ~spoiled /\ (entry # Absent => entry'.body = r)
<1>1. pc' = Ended(r)
  BY DEF Ends
<1>2. /\ pc' \in [Requests -> PCs] /\ pc'[r] = "ended"
      /\ \A q \in Requests \ {r} :
            \/ pc'[q] = pc[q]
            \/ Kind[r].key /\ entry.fut # None /\ pc[q] = "wait" /\ pc'[q] = "woken"
      /\ Kind[r].key /\ entry.fut # None =>
            \A q \in Requests \ {r} : pc[q] = "wait" /\ waits[q] = entry.fut => pc'[q] = "woken"
  BY <1>1 DEF Ended, TypeOK, PCs, Waiting
<1>3. /\ answer' = [answer EXCEPT ![r] = a] /\ cand' = [cand EXCEPT ![r] = None]
      /\ bill' = IF cand[r] = "cloud" /\ a = "ok" THEN bill + 1 ELSE bill
      /\ UNCHANGED <<waits, tried, open>>
  BY DEF Ends
<1>4. /\ answer' \in [Requests -> Answering]
      /\ cand' \in [Requests -> Candidates \cup {None}] /\ cand'[r] = None
      /\ \A q \in Requests \ {r} : cand'[q] = cand[q]
      /\ bill' \in Nat
  BY <1>3 DEF TypeOK, Answering
<1>5. PICK good \in BOOLEAN : Settles(r, good)
  BY DEF Ends
<1>6. CASE Kind[r].key
  <2>1. /\ entry' \in [fut : Requests \cup {None}, body : Requests \cup {None}]
        /\ entry'.fut = None
        /\ good /\ entry # Absent => entry'.body = r
    BY <1>5, <1>6 DEF Settles, Absent
  <2>2. spoiled' = (spoiled \/ ~good)
    BY <1>5, <1>6 DEF Settles
  <2>3. spoiled' \in BOOLEAN /\ (~spoiled' => ~spoiled /\ good)
    BY <2>2
  <2>. QED BY <1>2, <1>3, <1>4, <1>6, <2>1, <2>3
<1>7. CASE ~Kind[r].key
  <2>1. UNCHANGED <<entry, spoiled>>
    BY <1>5, <1>7 DEF Settles
  <2>2. /\ entry \in [fut : Requests \cup {None}, body : Requests \cup {None}]
        /\ spoiled \in BOOLEAN
    BY DEF TypeOK
  <2>. QED BY <1>2, <1>3, <1>4, <1>7, <2>1, <2>2
<1>. QED BY <1>6, <1>7

\* An end with or without a shadow run, and its types.
LEMMA EndTypes ==
    ASSUME TypeOK, NEW r \in Requests, NEW a \in Answering, Ends(r, a),
           MayShadow \/ UNCHANGED <<shadow, events>> \/ (Event /\ UNCHANGED shadow),
           UNCHANGED <<broken, saw>>, voice' \in [Requests -> SUBSET Candidates],
           up' \in [Candidates -> BOOLEAN]
    PROVE  TypeOK'
<1>1. shadow' \in [planned : Nat, running : Nat, busy : BOOLEAN] /\ events' \in 0..MaxEvents
  BY RequestsAssumption DEF MayShadow, Event, TypeOK
<1>. QED BY <1>1, EndsEffect DEF TypeOK, PCs, Waiting, Answering

LEMMA HeardType ==
    ASSUME TypeOK, NEW r \in Requests, cand[r] \in Candidates, Heard(r)
    PROVE  voice' \in [Requests -> SUBSET Candidates]
BY DEF TypeOK, Heard

\* A request goes on, to the next candidate or to the next step of its attempt.
LEMMA NextTypes ==
    ASSUME TypeOK, NEW r \in Requests, NextCandidate(r), up' \in [Candidates -> BOOLEAN]
    PROVE  TypeOK'
BY DEF TypeOK, NextCandidate, Goes, Running

LEMMA TypeStep ==
    ASSUME IInv, [Next]_vars
    PROVE  TypeOK'
<1>. USE DEF IInv
<1>0. /\ up \in [Candidates -> BOOLEAN] /\ voice \in [Requests -> SUBSET Candidates]
      /\ \A r \in Requests : pc[r] \in OnCandidate => cand[r] \in Candidates
  BY DEF TypeOK, Local
<1>1. ASSUME NEW r \in Requests, Arrive(r) PROVE TypeOK'
  BY <1>1 DEF TypeOK, Arrive, LooksUp, Reserve, Goes, route, Running
<1>2. ASSUME NEW r \in Requests, Wakes(r) PROVE TypeOK'
  BY <1>2 DEF TypeOK, Wakes, LooksUp, Reserve, Goes, route, Running
<1>3. ASSUME NEW r \in Requests, WaitExpires(r) PROVE TypeOK'
  BY <1>3 DEF TypeOK, WaitExpires, Goes, route, Running
<1>4. ASSUME NEW r \in Requests, Prepare(r) PROVE TypeOK'
  <2>1. CASE Ends(r, "error") /\ UNCHANGED <<broken, voice, saw, up, shadow, events>>
    BY <1>0, <2>1, EndTypes DEF Answering
  <2>2. CASE Goes(r, "choose") /\ UNCHANGED <<idem, route, answer, bill, up, shadow, events>>
    BY <2>2 DEF TypeOK, Goes, idem, route, Running
  <2>. QED BY <1>4, <2>1, <2>2 DEF Prepare
<1>5. ASSUME NEW r \in Requests, Choose(r) PROVE TypeOK'
  BY <1>5 DEF TypeOK, Choose, Goes, Sends, idem, Running
<1>6. ASSUME NEW r \in Requests, Refuse(r) PROVE TypeOK'
  BY <1>0, <1>6, EndTypes DEF Refuse, Answering
<1>7. ASSUME NEW r \in Requests, CheckContent(r) PROVE TypeOK'
  <2>1. CASE NextCandidate(r) /\ UNCHANGED up
    BY <1>0, <2>1, NextTypes
  <2>2. CASE /\ Goes(r, "sent") /\ Sends(r, "cloud", "redacted")
             /\ UNCHANGED <<idem, cand, tried, open, broken, voice, answer, bill, shadow, events, up>>
    BY <2>2 DEF TypeOK, Goes, Sends, idem, Running
  <2>3. CASE Answered(r, "refusal") /\ UNCHANGED <<broken, voice, saw, up>>
    BY <1>0, <2>3, EndTypes DEF Answered, Answering
  <2>. QED BY <1>7, <2>1, <2>2, <2>3 DEF CheckContent
<1>8. ASSUME NEW r \in Requests, Ping(r) PROVE TypeOK'
  BY <1>0, <1>8, HeardType DEF TypeOK, Ping, idem, OnCandidate
<1>9. ASSUME NEW r \in Requests, Breaks(r) PROVE TypeOK'
  <2>1. cand[r] \in Candidates
    BY <1>0, <1>9 DEF Breaks, OnCandidate
  <2>2. CASE Answered(r, "error") /\ Heard(r) /\ UNCHANGED <<broken, saw, up>>
    BY <1>0, <2>1, <2>2, HeardType, EndTypes DEF Answered, Answering
  <2>3. CASE Raises(r) /\ UNCHANGED <<broken, voice, saw, up>>
    BY <1>0, <2>3, EndTypes DEF Raises, Answering
  <2>4. CASE NextCandidate(r) /\ UNCHANGED up
    BY <1>0, <2>4, NextTypes
  <2>. QED BY <1>9, <2>2, <2>3, <2>4 DEF Breaks
<1>10. ASSUME NEW r \in Requests, NEW why, Rejects(r, why) PROVE TypeOK'
  <2>1. cand[r] \in Candidates /\ up' \in [Candidates -> BOOLEAN]
    BY <1>0, <1>10 DEF Rejects, OnCandidate
  <2>2. CASE Answered(r, "error") /\ Heard(r) /\ UNCHANGED <<broken, saw>>
    BY <2>1, <2>2, HeardType, EndTypes DEF Answered, Answering
  <2>3. CASE NextCandidate(r)
    BY <2>1, <2>3, NextTypes
  <2>. QED BY <1>10, <2>2, <2>3 DEF Rejects
<1>11. ASSUME NEW r \in Requests, NotLoaded(r) PROVE TypeOK'
  BY <1>0, <1>11, NextTypes DEF NotLoaded
<1>12. ASSUME NEW r \in Requests, Begins(r) PROVE TypeOK'
  <2>1. voice' \in [Requests -> SUBSET Candidates]
    BY <1>0, <1>12, HeardType DEF Begins, OnCandidate
  <2>. QED BY <1>12, <2>1 DEF TypeOK, Begins, Goes, idem, Running
<1>13. ASSUME NEW r \in Requests, ErrorLine(r) PROVE TypeOK'
  BY <1>13 DEF TypeOK, ErrorLine, idem
<1>14. ASSUME NEW r \in Requests, Aborts(r) PROVE TypeOK'
  BY <1>0, <1>14, EndTypes DEF Aborts, Raises, Answered, Answering
<1>15. ASSUME NEW r \in Requests, Completes(r) PROVE TypeOK'
  <2>1. cand[r] \in Candidates
    BY <1>0, <1>15 DEF Completes, OnCandidate
  <2>2. PICK a \in Answering : Answered(r, a)
    BY <1>15 DEF Completes, Answering
  <2>. QED BY <1>0, <1>15, <2>1, <2>2, HeardType, EndTypes DEF Completes, Answered
<1>16. ASSUME NEW r \in Requests, Disconnects(r) PROVE TypeOK'
  <2>1. CASE pc[r] = "wait"
    BY <1>16, <2>1, RequestsAssumption DEF TypeOK, Disconnects, Goes, idem, Event
  <2>2. CASE pc[r] # "wait"
    BY <1>0, <1>16, <2>2, EndTypes DEF Disconnects, Answering
  <2>. QED BY <2>1, <2>2
<1>17. CASE EntryExpires
  BY <1>17 DEF TypeOK, EntryExpires, route, Absent
<1>18. CASE ShadowStarts
  <2>1. PICK runs \in BOOLEAN :
            shadow' = [planned |-> shadow.planned - 1, busy |-> runs,
                       running |-> IF runs THEN shadow.running + 1 ELSE shadow.running]
    BY <1>18 DEF ShadowStarts
  <2>2. shadow' \in [planned : Nat, running : Nat, busy : BOOLEAN]
    BY <1>18, <2>1 DEF TypeOK, ShadowStarts
  <2>. QED BY <1>18, <2>2 DEF TypeOK, ShadowStarts, route, idem
<1>19. CASE ShadowEnds
  <2>1. shadow' \in [planned : Nat, running : Nat, busy : BOOLEAN]
    <3>1. shadow.running - 1 \in Nat
      BY <1>19 DEF TypeOK, ShadowEnds
    <3>. QED BY <1>19, <3>1 DEF TypeOK, ShadowEnds
  <2>. QED BY <1>19, <2>1 DEF TypeOK, ShadowEnds, route, idem
<1>20. CASE NewMonth
  BY <1>20, RequestsAssumption DEF TypeOK, NewMonth, Event, route, idem
<1>21. ASSUME NEW c \in Candidates, Changes(c) PROVE TypeOK'
  <2>1. up' \in [Candidates -> BOOLEAN]
    BY <1>21 DEF TypeOK, Changes
  <2>. QED BY <1>21, <2>1, RequestsAssumption DEF TypeOK, Changes, Event, route, idem
<1>22. CASE UNCHANGED vars
  BY <1>22 DEF TypeOK, vars
<1>. QED
  BY <1>1, <1>2, <1>3, <1>4, <1>5, <1>6, <1>7, <1>8, <1>9, <1>10, <1>11, <1>12, <1>13, <1>14,
     <1>15, <1>16, <1>17, <1>18, <1>19, <1>20, <1>21, <1>22 DEF Next, Steps, Quiescent

----------------------------------------------------------------------------
(* Where a request stands *)

\* Nothing happens to request q but that it is woken.
Same(q) == /\ cand'[q] = cand[q] /\ open'[q] = open[q] /\ voice'[q] = voice[q] /\ saw'[q] = saw[q]
           /\ pc'[q] = pc[q] \/ (pc[q] = "wait" /\ pc'[q] = "woken")

LEMMA SameKeepsLocal ==
    ASSUME NEW q \in Requests, Local(q), Same(q)
    PROVE  Local(q)'
BY DEF Local, Same, Waiting, OnCandidate

\* What a request does it does to itself; a repeat may be woken at its end.
LEMMA EndIsOwn ==
    ASSUME TypeOK, NEW r \in Requests, NEW a \in Answering, Ends(r, a), UNCHANGED saw,
           UNCHANGED voice \/ Heard(r)
    PROVE  \A q \in Requests \ {r} : Same(q)
BY EndsEffect DEF TypeOK, Same, Heard

LEMMA NextIsOwn ==
    ASSUME TypeOK, NEW r \in Requests, NextCandidate(r)
    PROVE  \A q \in Requests \ {r} : Same(q)
BY DEF TypeOK, Same, NextCandidate, Goes

\* The end of a request that has heard no more than before, or from its candidate.
LEMMA EndKeepsLocal ==
    ASSUME TypeOK, NEW r \in Requests, NEW a \in Answering, Ends(r, a), Local(r), UNCHANGED saw,
           pc[r] # "ended", UNCHANGED voice \/ (Heard(r) /\ cand[r] \in Candidates)
    PROVE  Local(r)'
<1>1. pc'[r] = "ended" /\ saw' = saw /\ open' = open
  BY EndsEffect
<1>2. voice[r] = {} \/ (voice[r] = {cand[r]} /\ cand[r] \in Candidates)
  BY DEF Local, OnCandidate
<1>3. voice'[r] = voice[r] \/ (voice'[r] = voice[r] \cup {cand[r]} /\ cand[r] \in Candidates)
  BY DEF TypeOK, Heard
<1>4. voice'[r] = {} \/ \E c \in Candidates : voice'[r] = {c}
  BY <1>2, <1>3
<1>. QED BY <1>1, <1>4 DEF Local, Waiting, OnCandidate

LEMMA NextKeepsLocal ==
    ASSUME TypeOK, NEW r \in Requests, NextCandidate(r), Local(r), ~open[r], pc[r] # "ended"
    PROVE  Local(r)'
BY DEF TypeOK, Local, NextCandidate, Goes, Waiting, OnCandidate

\* A step of one request keeps what is known of all if it keeps its own.
LEMMA OwnStep ==
    ASSUME NEW r \in Requests, \A q \in Requests : Local(q),
           \A q \in Requests \ {r} : Same(q), Local(r)'
    PROVE  (\A q \in Requests : Local(q))'
<1>1. ASSUME NEW q \in Requests PROVE Local(q)'
  <2>1. CASE q = r
    BY <2>1
  <2>2. CASE q # r
    BY <2>2, SameKeepsLocal
  <2>. QED BY <2>1, <2>2
<1>. QED BY <1>1

LEMMA LocalStep ==
    ASSUME IInv, [Next]_vars
    PROVE  (\A q \in Requests : Local(q))'
<1>. DEFINE Kept == (\A q \in Requests : Local(q))'
<1>0. TypeOK /\ \A q \in Requests : Local(q)
  BY DEF IInv
<1>1. ASSUME NEW r \in Requests, NEW a \in Answering, Ends(r, a), UNCHANGED saw, pc[r] # "ended",
             UNCHANGED voice \/ (Heard(r) /\ pc[r] \in OnCandidate)
      PROVE  Kept
  <2>1. cand[r] \in Candidates \/ UNCHANGED voice
    BY <1>0, <1>1 DEF Local
  <2>2. Local(r)'
    BY <1>0, <1>1, <2>1, EndKeepsLocal
  <2>. QED BY <1>0, <1>1, <2>2, EndIsOwn, OwnStep
<1>2. ASSUME NEW r \in Requests, NextCandidate(r), ~open[r], pc[r] # "ended"
      PROVE  Kept
  BY <1>0, <1>2, NextIsOwn, NextKeepsLocal, OwnStep
<1>3. ASSUME NEW r \in Requests, Arrive(r) PROVE Kept
  <2>1. \A q \in Requests \ {r} : Same(q)
    BY <1>0, <1>3 DEF TypeOK, Same, Arrive, LooksUp, Goes, route
  <2>2. Local(r)'
    BY <1>0, <1>3 DEF TypeOK, Local, Arrive, LooksUp, Goes, route, Waiting, OnCandidate
  <2>. QED BY <1>0, <2>1, <2>2, OwnStep
<1>4. ASSUME NEW r \in Requests, Wakes(r) \/ WaitExpires(r) PROVE Kept
  <2>1. \A q \in Requests \ {r} : Same(q)
    BY <1>0, <1>4 DEF TypeOK, Same, Wakes, WaitExpires, LooksUp, Goes, route
  <2>2. Local(r)'
    BY <1>0, <1>4 DEF TypeOK, Local, Wakes, WaitExpires, LooksUp, Goes, route, Waiting, OnCandidate
  <2>. QED BY <1>0, <2>1, <2>2, OwnStep
<1>5. ASSUME NEW r \in Requests, Prepare(r) PROVE Kept
  <2>1. CASE Ends(r, "error") /\ UNCHANGED <<voice, saw>>
    BY <1>1, <1>5, <2>1 DEF Prepare, Answering
  <2>2. CASE Goes(r, "choose") /\ UNCHANGED route
    <3>1. \A q \in Requests \ {r} : Same(q)
      BY <1>0, <2>2 DEF TypeOK, Same, Goes, route
    <3>2. Local(r)'
      BY <1>0, <1>5, <2>2 DEF TypeOK, Local, Prepare, Goes, route, Waiting, OnCandidate
    <3>. QED BY <1>0, <3>1, <3>2, OwnStep
  <2>. QED BY <1>5, <2>1, <2>2 DEF Prepare
<1>6. ASSUME NEW r \in Requests, Choose(r) PROVE Kept
  <2>1. \A q \in Requests \ {r} : Same(q)
    BY <1>0, <1>6 DEF TypeOK, Same, Choose, Goes, Sends
  <2>2. PICK c \in Candidates : /\ First(r, c) /\ cand' = [cand EXCEPT ![r] = c]
                                /\ IF c = "cloud" /\ NeedsCheck(Kind[r])
                                   THEN Goes(r, "check") /\ UNCHANGED saw
                                   ELSE Goes(r, "sent") /\ Sends(r, c, "raw")
    BY <1>6 DEF Choose
  <2>3. c = "cloud" => ~CloudBlock(Kind[r])
    BY <2>2 DEF First, Candidate, Blocked
  <2>4. pc[r] = "choose" /\ UNCHANGED <<open, voice>>
    BY <1>6 DEF Choose
  <2>5. CASE c = "cloud" /\ NeedsCheck(Kind[r])
    BY <1>0, <2>2, <2>3, <2>4, <2>5 DEF TypeOK, Local, Goes, CloudBlock, Waiting, OnCandidate
  <2>6. CASE c = "cloud" /\ ~NeedsCheck(Kind[r])
    BY <1>0, <2>2, <2>3, <2>4, <2>6 DEF TypeOK, Local, Goes, Sends, CloudBlock, Waiting, OnCandidate
  <2>7. CASE c # "cloud"
    BY <1>0, <2>2, <2>4, <2>7 DEF TypeOK, Local, Goes, Sends, Waiting, OnCandidate
  <2>8. Local(r)'
    BY <2>5, <2>6, <2>7
  <2>. QED BY <1>0, <2>1, <2>8, OwnStep
<1>7. ASSUME NEW r \in Requests, Refuse(r) PROVE Kept
  BY <1>1, <1>7 DEF Refuse, Answering
<1>8. ASSUME NEW r \in Requests, CheckContent(r) PROVE Kept
  <2>1. CASE NextCandidate(r)
    BY <1>0, <1>2, <1>8, <2>1 DEF CheckContent, Local
  <2>2. CASE Answered(r, "refusal") /\ UNCHANGED <<voice, saw>>
    BY <1>1, <1>8, <2>2 DEF CheckContent, Answered, Answering
  <2>3. CASE /\ "passed" \in Verdicts(Kind[r]) /\ Goes(r, "sent") /\ Sends(r, "cloud", "redacted")
             /\ UNCHANGED <<cand, open, voice>>
    <3>1. \A q \in Requests \ {r} : Same(q)
      BY <1>0, <2>3 DEF TypeOK, Same, Goes, Sends
    <3>2. ~Kind[r].hit /\ pc[r] = "check"
      BY <1>8, <2>3 DEF Verdicts, CheckContent
    <3>3. Local(r)'
      BY <1>0, <2>3, <3>2 DEF TypeOK, Local, Goes, Sends, Waiting, OnCandidate
    <3>. QED BY <1>0, <3>1, <3>3, OwnStep
  <2>. QED BY <1>8, <2>1, <2>2, <2>3 DEF CheckContent
<1>9. ASSUME NEW r \in Requests, Ping(r) PROVE Kept
  <2>1. \A q \in Requests \ {r} : Same(q)
    BY <1>0, <1>9 DEF TypeOK, Same, Ping, Heard
  <2>2. Local(r)'
    BY <1>0, <1>9 DEF TypeOK, Local, Ping, Heard, Waiting, OnCandidate
  <2>. QED BY <1>0, <2>1, <2>2, OwnStep
<1>10. ASSUME NEW r \in Requests, Breaks(r) PROVE Kept
  BY <1>1, <1>2, <1>10 DEF Breaks, Answered, Raises, Answering, OnCandidate
<1>11. ASSUME NEW r \in Requests, NEW why, Rejects(r, why) PROVE Kept
  BY <1>1, <1>2, <1>11 DEF Rejects, Answered, Answering, OnCandidate
<1>12. ASSUME NEW r \in Requests, NotLoaded(r) PROVE Kept
  BY <1>0, <1>2, <1>12 DEF NotLoaded, Local
<1>13. ASSUME NEW r \in Requests, Begins(r) PROVE Kept
  <2>1. \A q \in Requests \ {r} : Same(q)
    BY <1>0, <1>13 DEF TypeOK, Same, Begins, Heard, Goes
  <2>2. pc[r] = "sent" /\ cand[r] \in Candidates /\ (voice[r] = {} \/ voice[r] = {cand[r]})
    BY <1>0, <1>13 DEF Begins, Local, OnCandidate
  <2>3. Local(r)'
    <3>1. CASE Kind[r].stream
      <4>1. pc'[r] = "stream" /\ open'[r] /\ voice'[r] = {cand'[r]} /\ cand' = cand /\ saw' = saw
        BY <1>0, <1>13, <2>2, <3>1 DEF TypeOK, Begins, Heard, Goes
      <4>. QED BY <1>0, <2>2, <3>1, <4>1 DEF Local, Waiting, OnCandidate
    <3>2. CASE ~Kind[r].stream
      BY <1>0, <1>13, <2>2, <3>2 DEF TypeOK, Local, Begins, Goes, Waiting, OnCandidate
    <3>. QED BY <3>1, <3>2
  <2>. QED BY <1>0, <2>1, <2>3, OwnStep
<1>14. ASSUME NEW r \in Requests, Aborts(r) PROVE Kept
  BY <1>1, <1>14 DEF Aborts, Answered, Raises, Answering
<1>15. ASSUME NEW r \in Requests, Completes(r) PROVE Kept
  <2>1. PICK a \in Answering : Answered(r, a)
    BY <1>15 DEF Completes, Answering
  <2>. QED BY <1>1, <1>15, <2>1 DEF Completes, Answered, OnCandidate
<1>16. ASSUME NEW r \in Requests, Disconnects(r) PROVE Kept
  <2>1. CASE pc[r] = "wait"
    <3>1. \A q \in Requests \ {r} : Same(q)
      BY <1>0, <1>16, <2>1 DEF TypeOK, Same, Disconnects, Goes
    <3>2. Local(r)'
      BY <1>0, <1>16, <2>1 DEF TypeOK, Local, Disconnects, Goes, Waiting, OnCandidate
    <3>. QED BY <1>0, <3>1, <3>2, OwnStep
  <2>2. CASE pc[r] # "wait"
    BY <1>1, <1>16, <2>2 DEF Disconnects, Answering, Running
  <2>. QED BY <2>1, <2>2
<1>17. ASSUME NEW r \in Requests, ErrorLine(r) PROVE Kept
  BY <1>0, <1>17 DEF ErrorLine, Local
<1>18. ASSUME UNCHANGED <<pc, route>> PROVE Kept
  BY <1>0, <1>18 DEF route, Local
<1>19. EntryExpires \/ ShadowStarts \/ ShadowEnds \/ NewMonth \/ UNCHANGED vars
          \/ (\E c \in Candidates : Changes(c)) => UNCHANGED <<pc, route>>
  BY DEF EntryExpires, ShadowStarts, ShadowEnds, NewMonth, Changes, vars, route
<1>. QED
  BY <1>3, <1>4, <1>5, <1>6, <1>7, <1>8, <1>9, <1>10, <1>11, <1>12, <1>13, <1>14, <1>15, <1>16,
     <1>17, <1>18, <1>19 DEF Next, Steps, Quiescent

----------------------------------------------------------------------------
(* Keys *)

\* The end of a request that runs settles its key: whoever runs with the key besides is
\* a consequence of what spoiled it.
LEMMA EndKeepsKey ==
    ASSUME IInv, NEW r \in Requests, NEW a \in Answering, Ends(r, a), pc[r] \in Running
    PROVE  KeyHeld'
<1>0. TypeOK /\ KeyHeld
  BY DEF IInv
<1>1. \A q \in Requests : pc'[q] \in Running => q # r /\ pc'[q] = pc[q]
  BY <1>0, EndsEffect DEF Running
<1>2. CASE Kind[r].key
  <2>1. entry'.fut = None /\ (~spoiled' => ~spoiled /\ (entry # Absent => entry'.body = r))
    BY <1>0, <1>2, EndsEffect
  <2>2. ~spoiled => entry.fut = r /\ entry # Absent
    BY <1>0, <1>2, RequestsAssumption DEF KeyHeld, Absent
  <2>3. \A q \in Requests \ {r} : pc'[q] = pc[q] \/ pc'[q] = "woken"
    BY <1>0, EndsEffect
  <2>4. ~spoiled' => \A q \in Requests : pc'[q] # "wait"
    <3>1. SUFFICES ASSUME ~spoiled', NEW q \in Requests \ {r}, pc'[q] = "wait" PROVE FALSE
      BY <1>0, EndsEffect
    <3>2. pc[q] = "wait" /\ entry.fut = r /\ waits[q] = entry.fut
      BY <1>0, <2>1, <2>2, <2>3, <3>1 DEF KeyHeld
    <3>. QED BY <1>0, <1>2, <3>1, <3>2, RequestsAssumption, EndsEffect
  <2>5. ~spoiled' => entry'.body = r
    BY <2>1, <2>2
  <2>. QED BY <1>0, <1>1, <2>1, <2>2, <2>4, <2>5, RequestsAssumption DEF KeyHeld
<1>3. CASE ~Kind[r].key
  <2>1. entry' = entry /\ spoiled' = spoiled /\ waits' = waits /\ \A q \in Requests \ {r} : pc'[q] = pc[q]
    BY <1>0, <1>3, EndsEffect
  <2>2. pc'[r] = "ended"
    BY <1>0, EndsEffect
  <2>. QED BY <1>0, <1>3, <2>1, <2>2 DEF KeyHeld, TypeOK, Running
<1>. QED BY <1>2, <1>3

\* A request that runs goes on running.
LEMMA RunningKeepsKey ==
    ASSUME IInv, NEW r \in Requests, pc[r] \in Running, pc'[r] \in Running,
           \A q \in Requests \ {r} : pc'[q] = pc[q], UNCHANGED idem
    PROVE  KeyHeld'
BY DEF IInv, KeyHeld, TypeOK, Running, idem

LEMMA LookUpKeepsKey ==
    ASSUME IInv, NEW r \in Requests, LooksUp(r), Kind[r].key, UNCHANGED spoiled,
           \A q \in Requests \ {r} : waits'[q] = waits[q],
           pc[r] = "woken" \/ (pc[r] = "new" /\ entry.fut = None)
    PROVE  KeyHeld'
<1>0. TypeOK /\ KeyHeld
  BY DEF IInv
<1>1. CASE entry.body # None
  <2>1. entry' = entry /\ pc' = [pc EXCEPT ![r] = "ended"]
    BY <1>1 DEF LooksUp, Goes
  <2>2. entry.fut = None
    BY <1>0, <1>1 DEF KeyHeld
  <2>. QED BY <1>0, <1>1, <2>1, <2>2 DEF KeyHeld, TypeOK, Running
<1>2. CASE entry.body = None
  <2>1. entry' = [fut |-> r, body |-> None] /\ pc' = [pc EXCEPT ![r] = "prepare"]
    BY <1>2 DEF LooksUp, Goes, Reserve
  <2>2. ~spoiled => /\ \A q \in Requests : pc[q] # "woken"
                    /\ pc[r] = "new" /\ \A q \in Requests : Kind[q].key => pc[q] \notin Running
                    /\ \A q \in Requests : pc[q] # "wait"
    BY <1>0, <1>2, RequestsAssumption DEF KeyHeld
  <2>. QED BY <1>0, <2>1, <2>2 DEF KeyHeld, TypeOK, Running
<1>. QED BY <1>1, <1>2

LEMMA KeyStep ==
    ASSUME IInv, [Next]_vars
    PROVE  KeyHeld'
<1>0. TypeOK /\ KeyHeld /\ \A r \in Requests : Local(r)
  BY DEF IInv
<1>1. ASSUME NEW r \in Requests, Arrive(r) PROVE KeyHeld'
  <2>1. CASE Kind[r].key /\ entry.fut # None
    BY <1>0, <1>1, <2>1 DEF KeyHeld, TypeOK, Arrive, Goes, Running
  <2>2. CASE Kind[r].key /\ entry.fut = None
    BY <1>0, <1>1, <2>2, LookUpKeepsKey DEF Arrive, TypeOK
  <2>3. CASE ~Kind[r].key
    BY <1>0, <1>1, <2>3 DEF KeyHeld, TypeOK, Arrive, Goes, Running
  <2>. QED BY <2>1, <2>2, <2>3
<1>2. ASSUME NEW r \in Requests, Wakes(r) PROVE KeyHeld'
  BY <1>0, <1>2, LookUpKeepsKey DEF Wakes, Local, TypeOK
<1>3. ASSUME NEW r \in Requests, WaitExpires(r) PROVE KeyHeld'
  BY <1>0, <1>3 DEF KeyHeld, TypeOK, WaitExpires, Goes, Running
<1>4. CASE EntryExpires
  BY <1>0, <1>4 DEF KeyHeld, EntryExpires, Absent
<1>5. ASSUME NEW r \in Requests, Prepare(r) PROVE KeyHeld'
  BY <1>0, <1>5, EndKeepsKey, RunningKeepsKey DEF TypeOK, Prepare, Goes, idem, Answering, Running
<1>6. ASSUME NEW r \in Requests, Choose(r) PROVE KeyHeld'
  BY <1>0, <1>6, RunningKeepsKey DEF TypeOK, Choose, Goes, idem, Running
<1>7. ASSUME NEW r \in Requests, Refuse(r) PROVE KeyHeld'
  BY <1>7, EndKeepsKey DEF Refuse, Answering, Running
<1>8. ASSUME NEW r \in Requests, NextCandidate(r), pc[r] \in Running PROVE KeyHeld'
  BY <1>0, <1>8, RunningKeepsKey DEF TypeOK, NextCandidate, Goes, Running, idem
<1>9. ASSUME NEW r \in Requests, CheckContent(r) PROVE KeyHeld'
  <2>1. pc[r] \in Running
    BY <1>9 DEF CheckContent, Running
  <2>2. CASE Goes(r, "sent") /\ UNCHANGED idem
    BY <1>0, <2>1, <2>2, RunningKeepsKey DEF TypeOK, Goes, idem, Running
  <2>. QED BY <1>8, <1>9, <2>1, <2>2, EndKeepsKey DEF CheckContent, Answered, Answering
<1>10. ASSUME NEW r \in Requests, Breaks(r) PROVE KeyHeld'
  BY <1>8, <1>10, EndKeepsKey DEF Breaks, Answered, Raises, Answering, Running
<1>11. ASSUME NEW r \in Requests, NEW why, Rejects(r, why) PROVE KeyHeld'
  BY <1>8, <1>11, EndKeepsKey DEF Rejects, Answered, Answering, Running
<1>12. ASSUME NEW r \in Requests, NotLoaded(r) PROVE KeyHeld'
  BY <1>8, <1>12 DEF NotLoaded, Running
<1>13. ASSUME NEW r \in Requests, Begins(r) PROVE KeyHeld'
  BY <1>0, <1>13, RunningKeepsKey DEF TypeOK, Begins, Goes, idem, Running
<1>14. ASSUME NEW r \in Requests, Aborts(r) PROVE KeyHeld'
  BY <1>14, EndKeepsKey DEF Aborts, Answered, Raises, Answering, Running
<1>15. ASSUME NEW r \in Requests, Completes(r) PROVE KeyHeld'
  <2>1. pc[r] \in Running /\ \E a \in Answering : Ends(r, a)
    BY <1>15 DEF Completes, Answered, Answering, Running
  <2>. QED BY <2>1, EndKeepsKey
<1>16. ASSUME NEW r \in Requests, Disconnects(r) PROVE KeyHeld'
  <2>1. CASE pc[r] = "wait"
    BY <1>0, <1>16, <2>1 DEF KeyHeld, TypeOK, Disconnects, Goes, idem, Running
  <2>2. CASE pc[r] # "wait"
    BY <1>16, <2>2, EndKeepsKey DEF Disconnects, Answering
  <2>. QED BY <2>1, <2>2
<1>17. ASSUME UNCHANGED <<pc, idem>> PROVE KeyHeld'
  BY <1>0, <1>17 DEF KeyHeld, idem
<1>18. \/ ShadowStarts \/ ShadowEnds \/ NewMonth \/ UNCHANGED vars
       \/ \E c \in Candidates : Changes(c)
       \/ \E r \in Requests : Ping(r) \/ ErrorLine(r)
       => UNCHANGED <<pc, idem>>
  BY DEF ShadowStarts, ShadowEnds, NewMonth, Changes, Ping, ErrorLine, vars, idem
<1>. QED
  BY <1>1, <1>2, <1>3, <1>4, <1>5, <1>6, <1>7, <1>9, <1>10, <1>11, <1>12, <1>13, <1>14, <1>15,
     <1>16, <1>17, <1>18 DEF Next, Steps, Quiescent

----------------------------------------------------------------------------
(* The budget *)

OnCloud == {r \in Requests : pc[r] \in OnCandidate /\ cand[r] = "cloud"}

LEMMA CloudCount ==
    /\ IsFiniteSet(OnCloud) /\ Cardinality(OnCloud) \in Nat
    /\ IsFiniteSet(OnCloud') /\ Cardinality(OnCloud') \in Nat
    /\ Inflight("cloud") = Cardinality(OnCloud)
    /\ Inflight("cloud")' = Cardinality(OnCloud')
<1>1. OnCloud \in SUBSET Requests /\ OnCloud' \in SUBSET Requests
  BY DEF OnCloud
<1>2. /\ IsFiniteSet(OnCloud) /\ Cardinality(OnCloud) \in Nat
      /\ IsFiniteSet(OnCloud') /\ Cardinality(OnCloud') \in Nat
  BY <1>1, RequestsAssumption, FS_Subset, FS_CardinalityType
<1>. QED BY <1>2 DEF Inflight, OnCloud

\* No more is under way and no more is spent.
LEMMA FewerOnCloud ==
    ASSUME TypeOK, OverspendIsBounded, OnCloud' \subseteq OnCloud, bill' \in Nat, bill' <= bill
    PROVE  OverspendIsBounded'
<1>1. Cardinality(OnCloud') <= Cardinality(OnCloud)
  BY CloudCount, FS_Subset
<1>. QED BY <1>1, CloudCount, RequestsAssumption DEF OverspendIsBounded, TypeOK, Candidates

\* An answer of the cloud is paid as it leaves the count of those under way.
LEMMA EndKeepsBudget ==
    ASSUME TypeOK, OverspendIsBounded, NEW r \in Requests, NEW a \in Answering, Ends(r, a),
           a = "ok" => pc[r] \in OnCandidate
    PROVE  OverspendIsBounded'
<1>1. /\ OnCloud' = OnCloud \ {r}
      /\ bill' \in Nat /\ bill' = IF cand[r] = "cloud" /\ a = "ok" THEN bill + 1 ELSE bill
  BY EndsEffect DEF OnCloud, OnCandidate
<1>2. CASE cand[r] = "cloud" /\ a = "ok"
  <2>1. r \in OnCloud /\ bill' = bill + 1
    BY <1>1, <1>2 DEF OnCloud
  <2>2. Cardinality(OnCloud') = Cardinality(OnCloud) - 1
    BY <1>1, <2>1, CloudCount, FS_RemoveElement
  <2>. QED
    BY <2>1, <2>2, CloudCount, RequestsAssumption DEF OverspendIsBounded, TypeOK, Candidates
<1>3. CASE ~(cand[r] = "cloud" /\ a = "ok")
  BY <1>1, <1>3, FewerOnCloud DEF TypeOK
<1>. QED BY <1>2, <1>3

\* The budget is looked at, and the slots of the cloud, in the step that takes one.
LEMMA ChooseKeepsBudget ==
    ASSUME TypeOK, OverspendIsBounded, NEW r \in Requests, Choose(r)
    PROVE  OverspendIsBounded'
<1>1. PICK c \in Candidates :
          /\ First(r, c) /\ ~Saturated(c) /\ cand' = [cand EXCEPT ![r] = c]
          /\ \A q \in Requests \ {r} : pc'[q] = pc[q]
  BY DEF Choose, TypeOK, Goes
<1>2. bill' = bill /\ pc[r] = "choose"
  BY DEF Choose
<1>3. CASE c = "cloud"
  <2>1. bill < Budget /\ Cardinality(OnCloud) < MaxInflight["cloud"]
    BY <1>1, <1>3, CloudCount, RequestsAssumption
       DEF First, Candidate, Blocked, BudgetExhausted, Saturated, TypeOK, Candidates
  <2>2. OnCloud' \subseteq OnCloud \cup {r}
    BY <1>1 DEF OnCloud, TypeOK
  <2>3. /\ IsFiniteSet(OnCloud \cup {r}) /\ Cardinality(OnCloud) \in Nat
        /\ Cardinality(OnCloud \cup {r}) \in Nat
        /\ Cardinality(OnCloud \cup {r}) <= Cardinality(OnCloud) + 1
    <3>1. IsFiniteSet(OnCloud) /\ Cardinality(OnCloud) \in Nat
      BY CloudCount
    <3>2. /\ IsFiniteSet(OnCloud \cup {r})
          /\ Cardinality(OnCloud \cup {r})
                = IF r \in OnCloud THEN Cardinality(OnCloud) ELSE Cardinality(OnCloud) + 1
      BY <3>1, FS_AddElement
    <3>. QED BY <3>1, <3>2
  <2>4. Cardinality(OnCloud') <= Cardinality(OnCloud \cup {r}) /\ Cardinality(OnCloud') \in Nat
    BY <2>2, <2>3, CloudCount, FS_Subset
  <2>5. Cardinality(OnCloud') <= MaxInflight["cloud"] /\ bill <= Budget - 1
    BY <2>1, <2>3, <2>4, RequestsAssumption DEF TypeOK, Candidates
  <2>. QED
    BY <1>2, <2>4, <2>5, CloudCount, RequestsAssumption DEF OverspendIsBounded, TypeOK, Candidates
<1>4. CASE c # "cloud"
  <2>1. OnCloud' \subseteq OnCloud
    BY <1>1, <1>4 DEF OnCloud, TypeOK
  <2>. QED BY <1>2, <2>1, FewerOnCloud DEF TypeOK
<1>. QED BY <1>3, <1>4

LEMMA BudgetStep ==
    ASSUME IInv, [Next]_vars
    PROVE  OverspendIsBounded'
<1>0. TypeOK /\ OverspendIsBounded
  BY DEF IInv
<1>1. ASSUME NEW r \in Requests, NEW a \in Answering \ {"ok"}, Ends(r, a)
      PROVE  OverspendIsBounded'
  BY <1>0, <1>1, EndKeepsBudget
<1>2. ASSUME OnCloud' \subseteq OnCloud, UNCHANGED bill PROVE OverspendIsBounded'
  BY <1>0, <1>2, FewerOnCloud DEF TypeOK
<1>3. ASSUME NEW r \in Requests, NextCandidate(r) PROVE OverspendIsBounded'
  <2>1. OnCloud' \subseteq OnCloud
    BY <1>0, <1>3 DEF NextCandidate, Goes, OnCloud, OnCandidate, TypeOK
  <2>. QED BY <1>2, <1>3, <2>1 DEF NextCandidate
<1>4. ASSUME NEW r \in Requests, Arrive(r) \/ Wakes(r) \/ WaitExpires(r)
      PROVE  OverspendIsBounded'
  <2>1. \E where \in {"wait", "prepare", "ended"} : pc' = [pc EXCEPT ![r] = where]
    BY <1>4 DEF Arrive, Wakes, WaitExpires, LooksUp, Goes
  <2>2. cand' = cand /\ bill' = bill
    BY <1>4 DEF Arrive, Wakes, WaitExpires, route
  <2>3. OnCloud' \subseteq OnCloud
    BY <1>0, <2>1, <2>2 DEF OnCloud, OnCandidate, TypeOK
  <2>. QED BY <1>2, <2>2, <2>3
<1>5. ASSUME NEW r \in Requests, Prepare(r) PROVE OverspendIsBounded'
  <2>1. CASE Goes(r, "choose") /\ UNCHANGED <<route, bill>>
    BY <1>0, <1>2, <2>1 DEF Goes, route, OnCloud, OnCandidate, TypeOK
  <2>. QED BY <1>1, <1>5, <2>1 DEF Prepare, Answering
<1>6. ASSUME NEW r \in Requests, Choose(r) PROVE OverspendIsBounded'
  BY <1>0, <1>6, ChooseKeepsBudget
<1>7. ASSUME NEW r \in Requests, Refuse(r) PROVE OverspendIsBounded'
  BY <1>1, <1>7 DEF Refuse, Answering
<1>8. ASSUME NEW r \in Requests, CheckContent(r) PROVE OverspendIsBounded'
  <2>1. CASE Goes(r, "sent") /\ UNCHANGED <<cand, bill>>
    BY <1>0, <1>2, <1>8, <2>1 DEF CheckContent, Goes, OnCloud, OnCandidate, TypeOK
  <2>. QED BY <1>1, <1>3, <1>8, <2>1 DEF CheckContent, Answered, Answering
<1>9. ASSUME NEW r \in Requests, Breaks(r) PROVE OverspendIsBounded'
  BY <1>1, <1>3, <1>9 DEF Breaks, Answered, Raises, Answering
<1>10. ASSUME NEW r \in Requests, NEW why, Rejects(r, why) PROVE OverspendIsBounded'
  BY <1>1, <1>3, <1>10 DEF Rejects, Answered, Answering
<1>11. ASSUME NEW r \in Requests, NotLoaded(r) PROVE OverspendIsBounded'
  BY <1>3, <1>11 DEF NotLoaded
<1>12. ASSUME NEW r \in Requests, Begins(r) PROVE OverspendIsBounded'
  <2>1. UNCHANGED <<cand, bill>> /\ pc[r] = "sent" /\ \E where : pc' = [pc EXCEPT ![r] = where]
    BY <1>12 DEF Begins, Goes
  <2>2. OnCloud' \subseteq OnCloud
    BY <1>0, <2>1 DEF OnCloud, OnCandidate, TypeOK
  <2>. QED BY <1>2, <2>1, <2>2
<1>13. ASSUME NEW r \in Requests, Aborts(r) PROVE OverspendIsBounded'
  BY <1>1, <1>13 DEF Aborts, Answered, Raises, Answering
<1>14. ASSUME NEW r \in Requests, Completes(r) PROVE OverspendIsBounded'
  <2>1. pc[r] \in OnCandidate /\ \E a \in Answering : Ends(r, a)
    BY <1>14 DEF Completes, Answered, Answering, OnCandidate
  <2>. QED BY <1>0, <2>1, EndKeepsBudget
<1>15. ASSUME NEW r \in Requests, Disconnects(r) PROVE OverspendIsBounded'
  <2>1. CASE Goes(r, "ended") /\ UNCHANGED <<cand, bill>>
    BY <1>0, <1>2, <2>1 DEF Goes, OnCloud, OnCandidate, TypeOK
  <2>. QED BY <1>1, <1>15, <2>1 DEF Disconnects, Answering
<1>16. CASE NewMonth
  <2>1. OnCloud' = OnCloud /\ bill' = 0
    BY <1>16 DEF NewMonth, route, OnCloud
  <2>. QED BY <1>0, <2>1, FewerOnCloud DEF TypeOK
<1>17. \/ EntryExpires \/ ShadowStarts \/ ShadowEnds \/ UNCHANGED vars
       \/ \E c \in Candidates : Changes(c)
       \/ \E r \in Requests : Ping(r) \/ ErrorLine(r)
       => UNCHANGED <<pc, cand, bill>>
  BY DEF EntryExpires, ShadowStarts, ShadowEnds, Changes, Ping, ErrorLine, vars, route
<1>18. ASSUME UNCHANGED <<pc, cand, bill>> PROVE OverspendIsBounded'
  BY <1>2, <1>18 DEF OnCloud
<1>. QED
  BY <1>4, <1>5, <1>6, <1>7, <1>8, <1>9, <1>10, <1>11, <1>12, <1>13, <1>14, <1>15, <1>16,
     <1>17, <1>18 DEF Next, Steps, Quiescent

----------------------------------------------------------------------------
(* The theorems *)

LEMMA Initially == Init => IInv
<1>. SUFFICES ASSUME Init PROVE IInv
  OBVIOUS
<1>1. TypeOK
  <2>1. /\ events \in 0..MaxEvents /\ bill \in Nat
        /\ shadow \in [planned : Nat, running : Nat, busy : BOOLEAN]
    BY RequestsAssumption DEF Init
  <2>2. /\ pc \in [Requests -> PCs] /\ cand \in [Requests -> Candidates \cup {None}]
        /\ answer \in [Requests -> Answering] /\ saw \in [Requests -> {"nothing", "redacted", "raw"}]
    BY DEF Init, PCs, Waiting, Answering
  <2>. QED BY <2>1, <2>2 DEF Init, TypeOK, Absent, PCs, Waiting, Answering
<1>2. \A r \in Requests : Local(r)
  BY RequestsAssumption DEF Init, Local, Waiting, OnCandidate
<1>3. KeyHeld
  BY DEF Init, KeyHeld, Absent, Running
<1>4. OverspendIsBounded
  <2>1. OnCloud = {} /\ bill = 0
    BY DEF Init, OnCloud, OnCandidate
  <2>. QED BY <2>1, CloudCount, FS_EmptySet, RequestsAssumption DEF OverspendIsBounded, Candidates
<1>. QED BY <1>1, <1>2, <1>3, <1>4 DEF IInv

LEMMA Inductive == IInv /\ [Next]_vars => IInv'
BY TypeStep, LocalStep, KeyStep, BudgetStep DEF IInv

THEOREM Invariance == Spec => []IInv
BY Initially, Inductive, PTL DEF Spec

\* The variables keep their types.
THEOREM TypeCorrect == Spec => []TypeOK
<1>1. IInv => TypeOK
  BY DEF IInv
<1>. QED BY <1>1, Invariance, PTL

\* What a client hears comes from one candidate (proxy.py: no other one is tried after
\* the first byte, keep-alive pings included).
THEOREM OneCandidateSpeaks == Spec => []OneVoice
<1>1. IInv => OneVoice
  <2>1. ASSUME IInv, NEW r \in Requests PROVE Cardinality(voice[r]) <= 1
    <3>1. voice[r] = {} \/ \E c : voice[r] = {c}
      BY <2>1 DEF IInv, Local
    <3>2. Cardinality({}) = 0 /\ \A c : Cardinality({c}) = 1
      BY FS_EmptySet, FS_Singleton
    <3>. QED BY <3>1, <3>2
  <2>. QED BY <2>1 DEF OneVoice
<1>. QED BY <1>1, Invariance, PTL

\* No key stays reserved by a request that has ended; and nobody waits for one that has
\* ended, as long as none failed, gave up waiting or expired (ops.py: idem_wait,
\* idem_finish, idem_abort). Then a second reservation overwrites the first one.
THEOREM KeysAreReleased == Spec => []ReservationHasOwner
<1>1. IInv => ReservationHasOwner
  BY RequestsAssumption DEF IInv, KeyHeld, ReservationHasOwner, TypeOK
<1>. QED BY <1>1, Invariance, PTL

\* One request of a key runs, unless one failed, gave up waiting or its answer expired.
THEOREM OneRunPerKey == Spec => []OneRunUnlessSpoiled
<1>1. ASSUME IInv, ~spoiled
      PROVE  Cardinality({r \in Requests : Kind[r].key /\ pc[r] \in Running}) <= 1
  <2>1. {r \in Requests : Kind[r].key /\ pc[r] \in Running} \in SUBSET {entry.fut}
    BY <1>1 DEF IInv, KeyHeld
  <2>2. IsFiniteSet({entry.fut}) /\ Cardinality({entry.fut}) = 1
    BY FS_Singleton
  <2>. QED BY <2>1, <2>2, FS_Subset
<1>2. IInv => OneRunUnlessSpoiled
  BY <1>1 DEF OneRunUnlessSpoiled
<1>. QED BY <1>2, Invariance, PTL

\* The budget is exceeded by no more than what ran as it was reached (cloud.py).
THEOREM OverspendBound == Spec => []OverspendIsBounded
<1>1. IInv => OverspendIsBounded
  BY DEF IInv
<1>. QED BY <1>1, Invariance, PTL

\* What is personal or secret stays in the house, whatever fails, is retried or changes
\* its candidate (cloud.py: request_block_reason, privacy.py: check).
THEOREM PrivacyHolds == Spec => []PersonalStaysHome
<1>1. IInv => PersonalStaysHome
  BY DEF IInv, Local, PersonalStaysHome, NeedsCheck
<1>. QED BY <1>1, Invariance, PTL

-----------------------------------------------------------------------------
\* Who may ask (Access), for any clients, users and passwords: what a step of the gate of the
\* control port preserves and answers.  No assumption of the module is cited.

LEMMA LeastNumber ==
    ASSUME NEW S \in SUBSET Nat, S # {}
    PROVE  \E i \in S : \A k \in S : i <= k
<1> DEFINE R == OpToRel(<, Nat)
<1>1. IsWellFoundedOn(R, Nat)
  BY NatLessThanWellFounded
<1>2. \A x, y \in Nat : x < y => <<x, y>> \in R
  BY DEF OpToRel
<1> HIDE DEF R
<1>3. PICK i \in S : \A k \in S : <<k, i>> \notin R
  BY <1>1, WFMin
<1>4. \A k \in S : ~(k < i)
  BY <1>2, <1>3
<1> QED
  BY <1>4

\* Who presents a token is a client that has this token, or nobody: never the client of his address,
\* and with a user name no client of another name. An address counts only where no token is
\* presented, and the router's own token only from its host; for any clients (resolve_client).
THEOREM TokensProveIdentity ==
    ASSUME NEW clients, DOMAIN clients \in SUBSET Nat, NEW internal, NEW q
    PROVE  LET who == ResolveClient(clients, internal, q)
               p == Presented(q)
           IN  \/ who.name = Nobody /\ who.via \in {"bad_token", "no_credentials"}
               \/ /\ who = Internal /\ p.user = Nobody /\ q.remote = Localhost
                  /\ p.token = internal /\ p.token # Nobody
               \/ \E i \in DOMAIN clients :
                     /\ who.name = clients[i].name
                     /\ p.token # Nobody => /\ clients[i].token = p.token /\ who.via # "ip"
                                            /\ p.user # Nobody => p.user = who.name
                     /\ p.token = Nobody => who.via = "ip" /\ q.remote \in clients[i].ip
<1> DEFINE who == ResolveClient(clients, internal, q)
           p == Presented(q)
           byToken == {i \in DOMAIN clients : clients[i].token = p.token /\ p.user \in {Nobody, clients[i].name}}
           byAddress == {i \in DOMAIN clients : q.remote \in clients[i].ip}
           pick(S) == CHOOSE i \in S : \A k \in S : i <= k
           first(S, via) == [name |-> clients[pick(S)].name, via |-> via]
<1>1. who = IF p.token # Nobody
            THEN IF p.user = Nobody /\ q.remote = Localhost /\ p.token = internal THEN Internal
                 ELSE IF byToken # {} THEN first(byToken, IF p.user # Nobody THEN "basic" ELSE p.via)
                 ELSE Unknown("bad_token")
            ELSE IF byAddress # {} THEN first(byAddress, "ip") ELSE Unknown("no_credentials")
  BY DEF ResolveClient
<1>2. p.via # "ip"
  BY DEF Presented
<1>3. /\ byToken \in SUBSET (DOMAIN clients) /\ byAddress \in SUBSET (DOMAIN clients)
      /\ \A i \in byToken : clients[i].token = p.token /\ p.user \in {Nobody, clients[i].name}
      /\ \A i \in byAddress : q.remote \in clients[i].ip
  OBVIOUS
<1>4. ASSUME NEW S \in SUBSET (DOMAIN clients), S # {}
      PROVE  pick(S) \in S
  BY <1>4, LeastNumber
<1> DEFINE Known == \E i \in DOMAIN clients :
                        /\ who.name = clients[i].name
                        /\ p.token # Nobody => /\ clients[i].token = p.token /\ who.via # "ip"
                                               /\ p.user # Nobody => p.user = who.name
                        /\ p.token = Nobody => who.via = "ip" /\ q.remote \in clients[i].ip
           Nameless == who.name = Nobody /\ who.via \in {"bad_token", "no_credentials"}
           Own == /\ who = Internal /\ p.user = Nobody /\ q.remote = Localhost
                  /\ p.token = internal /\ p.token # Nobody
<1> HIDE DEF who, p, byToken, byAddress, pick
<1>5. Nameless \/ Own \/ Known
  <2>1. CASE p.token = Nobody
    <3>1. CASE byAddress = {}
      BY <1>1, <2>1, <3>1 DEF Unknown
    <3>2. CASE byAddress # {}
      <4>1. pick(byAddress) \in byAddress
        BY <1>3, <1>4, <3>2
      <4>2. who = [name |-> clients[pick(byAddress)].name, via |-> "ip"]
        BY <1>1, <2>1, <3>2
      <4>3. who.name = clients[pick(byAddress)].name /\ who.via = "ip"
        BY <4>2
      <4>4. Known
        BY <1>3, <2>1, <4>1, <4>3
      <4> QED
        BY <4>4
    <3> QED
      BY <3>1, <3>2
  <2>2. CASE p.token # Nobody /\ p.user = Nobody /\ q.remote = Localhost /\ p.token = internal
    <3>1. who = Internal
      BY <1>1, <2>2
    <3> QED
      BY <2>2, <3>1
  <2>3. CASE p.token # Nobody /\ ~(p.user = Nobody /\ q.remote = Localhost /\ p.token = internal)
    <3>1. CASE byToken = {}
      BY <1>1, <2>3, <3>1 DEF Unknown
    <3>2. CASE byToken # {}
      <4>1. pick(byToken) \in byToken
        BY <1>3, <1>4, <3>2
      <4>2. who = [name |-> clients[pick(byToken)].name, via |-> IF p.user # Nobody THEN "basic" ELSE p.via]
        BY <1>1, <2>3, <3>2
      <4>3. who.name = clients[pick(byToken)].name /\ who.via # "ip"
        BY <1>2, <4>2
      <4>4. Known
        BY <1>3, <2>3, <4>1, <4>3
      <4> QED
        BY <4>4
    <3> QED
      BY <3>1, <3>2
  <2> QED
    BY <2>1, <2>2, <2>3
<1> QED
  BY <1>5 DEF who, p

ReplyTo(s, l, status) == [login |-> l, status |-> status, stored |-> s.stored]

\* What waits for its hash, of the logins L and the passwords `past` that were stored at some
\* time: its key is its login with the password stored when it came.
InHash(L, past) ==
    {h \in [login : L, key : {<<l.user, l.pw, p[2]>> : l \in L, p \in past}] :
        h.key[2] = h.login.pw /\ <<h.login.user, h.key[3]>> \in past}
IsGate(s) ==
    s = [now |-> s.now, stored |-> s.stored, ok |-> s.ok, fail |-> s.fail, src |-> s.src,
         hashing |-> s.hashing, out |-> s.out]
Stored(s) == {<<u, s.stored[u]>> : u \in DOMAIN s.stored}
\* Whatever is known to be good is known under the password that it has been hashed against.
GateOK(s, L, past) ==
    /\ IsGate(s)
    /\ Stored(s) \subseteq past
    /\ \A k \in DOMAIN s.ok : k[2] = k[3]
    /\ s.hashing \in Seq(InHash(L, past))

LEMMA LeavesTheQueue ==
    ASSUME NEW S, NEW q \in Seq(S), NEW i \in DOMAIN q
    PROVE  q[i] \in S /\ Without(q, i) \in Seq(S)
<1>1. DOMAIN q = 1..Len(q) /\ Len(q) \in Nat /\ \A j \in 1..Len(q) : q[j] \in S
  BY ElementOfSeq, LenProperties
<1>2. SubSeq(q, 1, i - 1) \in Seq(S)
  BY <1>1, SubSeqProperties
<1>3. SubSeq(q, i + 1, Len(q)) \in Seq(S)
  BY <1>1, SubSeqProperties
<1> QED
  BY <1>1, <1>2, <1>3, ConcatProperties DEF Without

LEMMA OfItsTime ==
    ASSUME NEW L, NEW past, NEW h \in InHash(L, past)
    PROVE  h.key[2] = h.login.pw /\ <<h.login.user, h.key[3]>> \in past
BY DEF InHash

LEMMA InHashGrows ==
    ASSUME NEW L, NEW past, NEW more, NEW q \in Seq(InHash(L, past))
    PROVE  q \in Seq(InHash(L, past \cup more))
<1>1. InHash(L, past) \subseteq InHash(L, past \cup more)
  BY DEF InHash
<1> QED
  BY <1>1, SeqMonotonic

\* What a step changes of a gate that stays one.
LEMMA GateStays ==
    ASSUME NEW L, NEW past, NEW s, GateOK(s, L, past), NEW t, IsGate(t),
           t.stored = s.stored, \A k \in DOMAIN t.ok : k \in DOMAIN s.ok \/ k[2] = k[3],
           t.hashing \in Seq(InHash(L, past))
    PROVE  GateOK(t, L, past)
BY DEF GateOK, Stored

LEMMA Replied ==
    ASSUME NEW s, IsGate(s), NEW l, NEW status
    PROVE  Replies(s, l, status) =
             [now |-> s.now, stored |-> s.stored, ok |-> s.ok, fail |-> s.fail, src |-> s.src,
              hashing |-> s.hashing,
              out |-> Append(s.out, ReplyTo(s, l, status))]
<1> DEFINE out == Append(s.out, ReplyTo(s, l, status))
<1>1. Replies(s, l, status) = [s EXCEPT !.out = out]
  BY DEF Replies, ReplyTo
<1> HIDE DEF out
<1>2. [s EXCEPT !.out = out] =
         [now |-> s.now, stored |-> s.stored, ok |-> s.ok, fail |-> s.fail, src |-> s.src,
          hashing |-> s.hashing, out |-> out]
  BY DEF IsGate
<1> QED
  BY <1>1, <1>2 DEF out

LEMMA NotedIs ==
    ASSUME NEW s, IsGate(s), NEW from
    PROVE  Noted(s, from) =
             [now |-> s.now, stored |-> s.stored, ok |-> s.ok, fail |-> s.fail,
              src |-> Bind(s.src, from, Append(FailuresOf(s, from), s.now)),
              hashing |-> s.hashing, out |-> s.out]
BY DEF IsGate, Noted

Says(t, s, l, status) ==
    /\ IsGate(t) /\ t.stored = s.stored /\ t.ok = s.ok /\ t.hashing = s.hashing
    /\ t.out = Append(s.out, ReplyTo(s, l, status))
LEMMA OnlyReplies ==
    ASSUME NEW s, NEW g, NEW l, NEW status, IsGate(g), g.stored = s.stored, g.ok = s.ok,
           g.hashing = s.hashing, g.out = s.out
    PROVE  Says(Replies(g, l, status), s, l, status)
<1>1. ReplyTo(g, l, status) = ReplyTo(s, l, status)
  BY DEF ReplyTo
<1> QED
  BY <1>1, Replied DEF IsGate, Says

\* A login is let in at once only with the password that is stored at this moment: what is known
\* to be good does not outlive a change of the password. One that is known to be good is never
\* throttled, whatever its address did. For any users and passwords (basic_auth_middleware).
THEOREM LoginsAreProved ==
    ASSUME NEW L, NEW past, NEW s, GateOK(s, L, past), NEW l \in L
    PROVE  LET t == LoginArrives(s, l)
               Gives(status) ==
                   t.out = Append(s.out, ReplyTo(s, l, status))
               good == l.user \in DOMAIN s.stored /\ Fresh(s.ok, KeyOf(s, l), s.now)
           IN  /\ GateOK(t, L, past)
               /\ \/ t.out = s.out \/ Gives(401) \/ Gives(429)
                  \/ Gives(200) /\ l.user \in DOMAIN s.stored /\ l.pw = s.stored[l.user]
               /\ good => Gives(200)
<1> DEFINE t == LoginArrives(s, l)
           key == KeyOf(s, l)
           noted == Noted(s, l.from)
           Gives(status) == t.out = Append(s.out, ReplyTo(s, l, status))
           Known == Has(s.stored, l.user)
           Good == Fresh(s.ok, key, s.now)
<1>1. IsGate(s) /\ s.hashing \in Seq(InHash(L, past))
  BY DEF GateOK
<1>2. IsGate(noted) /\ noted.stored = s.stored /\ noted.ok = s.ok /\ noted.hashing = s.hashing
      /\ noted.out = s.out
  BY <1>1, NotedIs DEF IsGate
<1>3. /\ Says(Replies(noted, l, 401), s, l, 401) /\ Says(Replies(s, l, 429), s, l, 429)
      /\ Says(Replies(s, l, 200), s, l, 200)
  BY <1>1, <1>2, OnlyReplies
<1>4. key = <<l.user, l.pw, s.stored[l.user]>>
  BY DEF KeyOf
<1>5. Has(s.stored, l.user) <=> l.user \in DOMAIN s.stored
  BY DEF Has
<1>6. \/ ~Known /\ t = Replies(noted, l, 401)
      \/ Known /\ Good /\ t = Replies(s, l, 200)
      \/ Known /\ ~Good /\ \/ t = Replies(noted, l, 401)
                           \/ t = Replies(s, l, 429)
                           \/ t = [s EXCEPT !.hashing = Append(@, [login |-> l, key |-> key])]
  BY DEF LoginArrives
<1>7. Known /\ Good => l.pw = s.stored[l.user]
  BY <1>4 DEF GateOK, Fresh, Has
<1> HIDE DEF t, key, noted, Known, Good
<1>8. ASSUME t = Replies(noted, l, 401) \/ t = Replies(s, l, 429) \/ t = Replies(s, l, 200)
      PROVE  GateOK(t, L, past)
  BY <1>1, <1>3, <1>8, GateStays DEF Says
<1>9. /\ t = Replies(noted, l, 401) => Gives(401)
      /\ t = Replies(s, l, 429) => Gives(429)
      /\ t = Replies(s, l, 200) => Gives(200)
  BY <1>3 DEF Says
<1>10. ASSUME Known, t = [s EXCEPT !.hashing = Append(@, [login |-> l, key |-> key])]
       PROVE  GateOK(t, L, past) /\ t.out = s.out
  <2>1. /\ IsGate(t) /\ t.stored = s.stored /\ t.ok = s.ok /\ t.out = s.out
        /\ t.hashing = Append(s.hashing, [login |-> l, key |-> key])
    BY <1>1, <1>10 DEF IsGate
  <2>2. <<l.user, s.stored[l.user]>> \in past
    BY <1>5, <1>10 DEF GateOK, Stored, Known
  <2>3. [login |-> l, key |-> key] \in InHash(L, past)
    BY <1>4, <2>2 DEF InHash
  <2>4. t.hashing \in Seq(InHash(L, past))
    BY <1>1, <2>1, <2>3, AppendProperties
  <2> QED
    BY <2>1, <2>4, GateStays
<1> QED
  BY <1>5, <1>6, <1>7, <1>8, <1>9, <1>10 DEF t, key, Known, Good

\* After the hashing a login is let in only with a password that was stored for its user when it
\* came, and the gate remembers it under that password alone (basic_auth_middleware after
\* to_thread): for whatever was changed meanwhile, in any order of the threads.
THEOREM HashedIsOfItsTime ==
    ASSUME NEW L, NEW past, NEW s, GateOK(s, L, past), NEW i \in DOMAIN s.hashing
    PROVE  LET t == LoginHashed(s, i)
               l == s.hashing[i].login
           IN  /\ GateOK(t, L, past)
               /\ \/ t.out = Append(s.out, ReplyTo(s, l, 401))
                  \/ t.out = Append(s.out, ReplyTo(s, l, 200)) /\ <<l.user, l.pw>> \in past
<1> DEFINE h == s.hashing[i]
           l == h.login
           rest == Without(s.hashing, i)
           left == [s EXCEPT !.hashing = Without(@, i)]
           ok == Bind(s.ok, h.key, s.now + OkFor)
           fail == Bind(s.fail, h.key, s.now + FailFor)
           right == [left EXCEPT !.ok = Bind(@, h.key, s.now + OkFor)]
           wrong == [left EXCEPT !.fail = Bind(@, h.key, s.now + FailFor)]
           t == LoginHashed(s, i)
<1>1. IsGate(s) /\ s.hashing \in Seq(InHash(L, past)) /\ \A k \in DOMAIN s.ok : k[2] = k[3]
  BY DEF GateOK
<1>2. h \in InHash(L, past) /\ rest \in Seq(InHash(L, past))
  BY <1>1, LeavesTheQueue
<1>3. h.key[2] = l.pw /\ <<l.user, h.key[3]>> \in past
  BY <1>2, OfItsTime
<1>4. t = IF l.pw = h.key[3] THEN Replies(right, l, 200) ELSE Replies(Noted(wrong, l.from), l, 401)
  BY DEF LoginHashed
<1>5. left = [now |-> s.now, stored |-> s.stored, ok |-> s.ok, fail |-> s.fail, src |-> s.src,
              hashing |-> rest, out |-> s.out]
  BY <1>1 DEF IsGate
<1> HIDE DEF rest, left
<1>6. right = [now |-> s.now, stored |-> s.stored, ok |-> ok, fail |-> s.fail, src |-> s.src,
               hashing |-> rest, out |-> s.out]
  BY <1>5
<1>7. wrong = [now |-> s.now, stored |-> s.stored, ok |-> s.ok, fail |-> fail, src |-> s.src,
               hashing |-> rest, out |-> s.out]
  BY <1>5
<1>8. \A k \in DOMAIN ok : k \in DOMAIN s.ok \/ k = h.key
  BY DEF Bind
<1> HIDE DEF t, right, wrong, ok, fail, h
<1>9. CASE l.pw = h.key[3]
  <2>1. t = Replies(right, l, 200)
    BY <1>4, <1>9
  <2>2. IsGate(right) /\ right.stored = s.stored /\ right.ok = ok /\ right.hashing = rest
        /\ right.out = s.out
    BY <1>6 DEF IsGate
  <2>3. Says(t, right, l, 200)
    BY <2>1, <2>2, OnlyReplies
  <2>4. ReplyTo(right, l, 200) = ReplyTo(s, l, 200)
    BY <2>2 DEF ReplyTo
  <2>5. GateOK(t, L, past)
    BY <1>2, <1>3, <1>8, <1>9, <2>2, <2>3, GateStays DEF Says
  <2>6. t.out = Append(s.out, ReplyTo(s, l, 200)) /\ <<l.user, l.pw>> \in past
    BY <1>3, <1>9, <2>2, <2>3, <2>4 DEF Says
  <2> QED
    BY <2>5, <2>6 DEF t, h
<1>10. CASE l.pw # h.key[3]
  <2> DEFINE noted == Noted(wrong, l.from)
  <2>1. t = Replies(noted, l, 401)
    BY <1>4, <1>10
  <2>2. IsGate(wrong) /\ wrong.stored = s.stored /\ wrong.ok = s.ok /\ wrong.hashing = rest
        /\ wrong.out = s.out
    BY <1>7 DEF IsGate
  <2>3. IsGate(noted) /\ noted.stored = s.stored /\ noted.ok = s.ok /\ noted.hashing = rest
        /\ noted.out = s.out
    BY <2>2, NotedIs DEF IsGate
  <2> HIDE DEF noted
  <2>4. Says(t, noted, l, 401)
    BY <2>1, <2>3, OnlyReplies
  <2>5. ReplyTo(noted, l, 401) = ReplyTo(s, l, 401)
    BY <2>3 DEF ReplyTo
  <2>6. GateOK(t, L, past)
    BY <1>2, <2>3, <2>4, GateStays DEF Says
  <2>7. t.out = Append(s.out, ReplyTo(s, l, 401))
    BY <2>3, <2>4, <2>5 DEF Says
  <2> QED
    BY <2>6, <2>7 DEF t, h
<1> QED
  BY <1>9, <1>10

\* The gate begins so, and stays so while time passes and while passwords are changed, users
\* added and users removed: what was known to be good becomes worthless by the new password.
THEOREM GateOutlivesChanges ==
    ASSUME NEW L, NEW stored
    PROVE  /\ GateOK(NewGate(stored), L, Stored(NewGate(stored)))
           /\ \A past, s : GateOK(s, L, past) =>
                 /\ GateOK(Tick(s), L, past)
                 /\ GateOK([s EXCEPT !.stored = stored], L, past \cup Stored([s EXCEPT !.stored = stored]))
<1>1. GateOK(NewGate(stored), L, Stored(NewGate(stored)))
  BY EmptySeq DEF NewGate, GateOK, IsGate
<1>2. ASSUME NEW past, NEW s, GateOK(s, L, past)
      PROVE  GateOK(Tick(s), L, past)
  <2>1. IsGate(s) /\ \A k \in DOMAIN s.ok : k[2] = k[3]
    BY <1>2 DEF GateOK
  <2>2. /\ IsGate(Tick(s)) /\ Tick(s).stored = s.stored /\ Tick(s).ok = s.ok
        /\ Tick(s).hashing = s.hashing
    BY <2>1 DEF IsGate, Tick
  <2> QED
    BY <1>2, <2>1, <2>2, GateStays DEF GateOK
<1>3. ASSUME NEW past, NEW s, GateOK(s, L, past)
      PROVE  GateOK([s EXCEPT !.stored = stored], L, past \cup Stored([s EXCEPT !.stored = stored]))
  <2> DEFINE t == [s EXCEPT !.stored = stored]
  <2>1. IsGate(s) /\ s.hashing \in Seq(InHash(L, past)) /\ \A k \in DOMAIN s.ok : k[2] = k[3]
    BY <1>3 DEF GateOK
  <2>2. IsGate(t) /\ t.ok = s.ok /\ t.hashing = s.hashing
    BY <2>1 DEF IsGate
  <2> HIDE DEF t
  <2>3. t.hashing \in Seq(InHash(L, past \cup Stored(t)))
    BY <2>1, <2>2, InHashGrows
  <2>4. GateOK(t, L, past \cup Stored(t))
    BY <2>1, <2>2, <2>3 DEF GateOK
  <2> QED
    BY <2>4 DEF t
<1> QED
  BY <1>1, <1>2, <1>3

\* What the administration shows of a model is what requests are measured by, once it is known:
\* for any sets of capabilities and any overrides (lacks, effective_caps).
THEOREM ShownIsMeasured ==
    ASSUME NEW raw, raw # {}, NEW over, NEW caps
    PROVE  Lacks(raw, over, caps) = caps \ EffectiveCaps(raw, over)
BY DEF Lacks, EffectiveCaps, Has
=============================================================================
