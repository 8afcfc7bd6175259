---------------------------- MODULE Outbox_proofs ----------------------------
(* Safety of Outbox for any number of workers, sends, resubmissions, rounds and
   faults.  IInv says of every worker what its claim still promises, and of every
   upstream id below the current one that no write can follow.  At the end, theorems
   about MemoryAccess: whose memory a request reads, writes and administers. *)
EXTENDS Outbox, MemoryAccess, FiniteSetTheorems, TLAPS

Busy(w) == worker[w].st # "idle"
Claims(w) == worker[w].st \in {"claimed", "called"}

\* No write under the id `i` can follow: its operation has ended, or Hindsight
\* does not know it and no send of it is on its way or still to come.
Closed(i) == \/ op[i] \in {"completed", "failed", "cancelled"}
             \/ /\ op[i] = "unknown" /\ i \notin sent
                /\ \A w \in Workers : ~(Claims(w) /\ worker[w].id = i)

\* How far the upstream ids get, and what a verification knows of it.
Counts ==
    /\ row.upBase <= row.up /\ row.up <= row.upBase + MaxResubmits
    /\ row.upBase <= row.rounds * MaxResubmits
    /\ \A w \in Workers : Busy(w) /\ row.lease = w =>
           /\ worker[w].kind = "verify" /\ worker[w].st = "claimed"
              => worker[w].resubmits = row.up - row.upBase
           /\ worker[w].outcome = "resubmit" => row.up < row.upBase + MaxResubmits

\* What the columns of a row say of each other.
Shape ==
    /\ row.live => row.lease # None
    /\ row.del => row.state \in {"delete_pending", "processing", "dead", "revoked", "deleted"}
    /\ row.state = "delete_pending" => row.del
    /\ row.state \in {"none", "cancelled"} => ~row.tried
    /\ ~row.tried => row.state \in {"none", "pending", "cancelled", "deleted"} /\ ~row.del

\* A job that was never claimed has left no trace.
Untried == ~row.tried => /\ sent = {} /\ ~doc
                         /\ \A i \in Ids : op[i] = "unknown"
                         /\ \A w \in Workers : ~Busy(w)

OutcomesOf(kind) == CASE kind = "retain" -> {"accepted", "retry", "revoked"}
                      [] kind = "delete" -> {"deleted", "retry", "revoked"}
                      [] OTHER -> {"accepted", "completed", "dead", "resubmit", "revoked"}

\* A worker knows the row it has claimed for as long as it has the lease.
Work ==
    \A w \in Workers :
        /\ worker[w].st # "done" => worker[w].outcome = "none"
        /\ Busy(w) =>
            /\ worker[w].id <= row.up /\ worker[w].kind # "none"
            /\ worker[w].kind = "delete" => row.del
            /\ row.lease = w =>
                /\ worker[w].id = row.up
                /\ row.state = "accepted" => worker[w].kind = "verify"
                /\ row.state = "processing"
                   => worker[w].kind = IF row.del THEN "delete" ELSE "retain"
            /\ worker[w].st = "called" => worker[w].kind = "retain"
            /\ worker[w].st = "ended" => worker[w].kind = "delete"
            /\ worker[w].st = "done" => worker[w].outcome \in OutcomesOf(worker[w].kind)

\* Nothing happens above the current id, and nothing more below it.
Operations ==
    /\ \A i \in Ids : op[i] # "unknown" \/ i \in sent => i <= row.up
    /\ \A i \in Ids : i < row.up => Closed(i)
    /\ \A w \in Workers :
           HasLease(w) /\ (worker[w].st = "ended" \/ worker[w].outcome \in {"resubmit", "deleted"})
               => Closed(row.up)
    /\ row.state = "deleted" => \A i \in Ids : Closed(i)

\* The document is there, or not, as those believe who have asked.
Document ==
    /\ \A w \in Workers : HasLease(w) /\ worker[w].outcome = "deleted" => ~doc
    /\ row.state = "deleted" => ~doc
    /\ ~row.del => /\ \A i \in Ids : op[i] = "completed" => doc
                   /\ \A w \in Workers : worker[w].outcome = "completed" => doc
    /\ row.state = "completed" => doc

IInv == /\ TypeOK /\ Counts /\ Shape /\ Untried /\ OpenJobsAreWhole
        /\ Work /\ Operations /\ Document

LEMMA Multiply == ASSUME NEW a \in Nat, NEW b \in Nat, NEW m \in Nat, a <= b
                  PROVE a * m <= b * m /\ (a + 1) * m = a * m + m
OBVIOUS

\* Before the job is put.
LEMMA InitInv == Init => IInv
<1>1. SUFFICES ASSUME Init PROVE IInv
      OBVIOUS
<1>2. 0 \in Ids /\ Ids \subseteq Nat
      BY LimitAssumption DEF Ids
<1>3. row = NoRow /\ NoRow \in RowType
      BY <1>1, <1>2, LimitAssumption DEF Init, NoRow, RowType
<1>4. \A w \in Workers : worker[w] = Idle
      BY <1>1 DEF Init
<1>5. TypeOK
  <2>1. Idle \in WorkerType
        BY <1>2 DEF Idle, WorkerType, Outcomes
  <2>2. worker \in [Workers -> WorkerType]
        BY <1>1, <2>1 DEF Init
  <2>3. op \in [Ids -> {"unknown", "running", "completed", "failed", "cancelled"}]
        BY <1>1 DEF Init
  <2>4. sent \subseteq Ids /\ doc \in BOOLEAN /\ row \in RowType
        BY <1>1, <1>3 DEF Init
  <2>5. faults \in 0..MaxFaults
        BY <1>1, LimitAssumption DEF Init
  <2> QED
      BY <2>2, <2>3, <2>4, <2>5 DEF TypeOK
<1>6. Counts /\ Shape /\ Untried /\ OpenJobsAreWhole
      BY <1>1, <1>3, <1>4, <1>2, LimitAssumption
      DEF Init, Counts, Shape, Untried, OpenJobsAreWhole, NoRow, Idle, Busy, Open
<1>7. Work /\ Operations /\ Document
      BY <1>1, <1>3, <1>4, <1>2
      DEF Init, Work, Operations, Document, NoRow, Idle, Busy, HasLease, Closed
<1> QED
    BY <1>5, <1>6, <1>7 DEF IInv

----------------------------------------------------------------------------
(* What the steps have in common *)

\* Ids are numbers.
LEMMA IdsAreNat == Ids \subseteq Nat /\ 0 \in Ids /\ \A i \in Ids : i \in Nat
BY LimitAssumption DEF Ids

\* One worker's record changes.
LEMMA OneWorker ==
    ASSUME TypeOK, NEW w \in Workers, NEW job \in WorkerType, WorkerIs(w, job)
    PROVE  /\ worker' \in [Workers -> WorkerType] /\ worker'[w] = job
           /\ \A v \in Workers \ {w} : worker'[v] = worker[v]
BY DEF TypeOK, WorkerIs

\* A worker knows the outcome of its job.
LEMMA DonePreserves ==
    ASSUME IInv, NEW w \in Workers, NEW o \in OutcomesOf(worker[w].kind),
           Busy(w), Done(w, o), UNCHANGED <<row, op, sent, faults>>,
           doc' = doc \/ (doc' = FALSE /\ row.del),
           o = "resubmit" /\ row.lease = w => row.up < row.upBase + MaxResubmits,
           o \in {"resubmit", "deleted"} /\ HasLease(w) => Closed(row.up),
           o = "deleted" => ~doc',
           o = "completed" /\ ~row.del => doc
    PROVE  IInv'
<1>1. TypeOK /\ worker[w] \in WorkerType
      BY DEF IInv, TypeOK
<1> DEFINE job == [worker[w] EXCEPT !.st = "done", !.outcome = o, !.resubmits = 0,
                                    !.sends = IF o = "retry" THEN @ ELSE 0]
<1>2. o \in Outcomes
      BY DEF OutcomesOf, Outcomes
<1>3. job \in WorkerType
      BY <1>1, <1>2 DEF WorkerType
<1>4. /\ worker' \in [Workers -> WorkerType] /\ worker'[w] = job
      /\ \A v \in Workers \ {w} : worker'[v] = worker[v]
      BY <1>1, <1>3, OneWorker DEF Done
<1>5. /\ job.st = "done" /\ job.outcome = o
      /\ job.kind = worker[w].kind /\ job.id = worker[w].id
      BY <1>1 DEF WorkerType
<1> HIDE DEF job
<1>6. TypeOK'
      BY <1>1, <1>4 DEF TypeOK
<1>7. Counts'
      BY <1>4, <1>5 DEF IInv, Counts, Busy
<1>8. Shape' /\ OpenJobsAreWhole'
      BY DEF IInv, Shape, OpenJobsAreWhole
<1>9. Untried'
      BY DEF IInv, Untried
<1>10. Work'
      BY <1>4, <1>5 DEF IInv, Work, Busy
<1>11. \A i \in Ids : Closed(i) => Closed(i)'
      BY <1>4, <1>5 DEF Closed, Claims
<1>12. row.up \in Ids
      BY <1>1 DEF TypeOK, RowType
<1>13. Operations'
      BY <1>4, <1>5, <1>11, <1>12 DEF IInv, Operations, HasLease
<1>14. Document'
      BY <1>4, <1>5 DEF IInv, Document, HasLease, Shape
<1> QED
    BY <1>6, <1>7, <1>8, <1>9, <1>10, <1>13, <1>14 DEF IInv

----------------------------------------------------------------------------
(* The owner's requests: only the row changes *)

LEMMA PutPreserves == ASSUME IInv, Put PROVE IInv'
<1>1. /\ row' = [NoRow EXCEPT !.state = "pending", !.payload = TRUE, !.scope = TRUE]
      /\ UNCHANGED <<worker, op, sent, doc, faults>> /\ ~row.tried /\ TypeOK
      BY DEF Put, OwnerOnly, hindsight, IInv, Shape
<1>2. /\ row'.state = "pending" /\ ~row'.tried /\ ~row'.del /\ ~row'.live
      /\ row'.up = 0 /\ row'.upBase = 0 /\ row'.rounds = 0 /\ row'.lease = None
      /\ row'.payload /\ row'.scope
      BY <1>1 DEF NoRow
<1>3. row' \in RowType
  <2>1. row' = [state |-> "pending", lease |-> None, live |-> FALSE, tried |-> FALSE,
                sends |-> 0, up |-> 0, upBase |-> 0, rounds |-> 0, del |-> FALSE,
                payload |-> TRUE, scope |-> TRUE]
        BY <1>1 DEF NoRow
  <2>2. 0 \in 0..MaxRounds
        BY LimitAssumption
  <2> QED
      BY <2>1, <2>2, IdsAreNat DEF RowType, Open
<1>4. TypeOK'
      BY <1>1, <1>3 DEF TypeOK
<1>5. /\ sent = {} /\ ~doc /\ \A i \in Ids : op[i] = "unknown"
      /\ \A w \in Workers : ~Busy(w) /\ worker[w].outcome = "none"
      BY <1>1 DEF IInv, Untried, Work, Busy
<1>6. Counts' /\ Shape' /\ Untried' /\ OpenJobsAreWhole'
      BY <1>1, <1>2, <1>5, LimitAssumption
      DEF Counts, Shape, Untried, OpenJobsAreWhole, Busy
<1>7. Work' /\ Operations' /\ Document'
      BY <1>1, <1>2, <1>5, IdsAreNat DEF Work, Operations, Document, Closed, Claims, Busy, HasLease
<1> QED
    BY <1>4, <1>6, <1>7 DEF IInv

\* A row that is closed for the workers, or for all that had it claimed.
LEMMA RowPreserves ==
    ASSUME IInv, UNCHANGED <<worker, hindsight>>, faults' \in 0..MaxFaults,
           row' \in RowType, Shape', OpenJobsAreWhole',
           row'.up = row.up, row'.tried = row.tried,
           row'.upBase = row.upBase \/ (row'.upBase = row.up /\ row'.lease = None),
           row'.upBase <= row'.rounds * MaxResubmits,
           row'.lease \in {row.lease, None}, row'.live => row.live,
           row.del => row'.del,
           row'.state \in {"processing", "accepted", "completed"} => row'.state = row.state /\ row'.del = row.del,
           row'.state = "deleted" /\ row.state # "deleted" => ~row.tried
    PROVE  IInv'
<1>1. TypeOK /\ UNCHANGED <<worker, op, sent, doc>>
      BY DEF IInv, hindsight
<1>2. TypeOK'
      BY <1>1 DEF TypeOK
<1>3. row.up \in Nat /\ row.upBase \in Nat
      BY <1>1, IdsAreNat DEF TypeOK, RowType
<1>4. None \notin Workers
      BY NoneAssumption
<1>5. Counts'
      BY <1>1, <1>3, <1>4, LimitAssumption DEF IInv, Counts, Busy
<1>6. Untried'
      BY <1>1 DEF IInv, Untried, Busy
<1>7. Work'
      BY <1>1, <1>4 DEF IInv, Work, Busy
<1>8. \A i : Closed(i) => Closed(i)'
      BY <1>1 DEF Closed, Claims
<1>9. \A w \in Workers : HasLease(w)' => HasLease(w)
      BY <1>1, <1>4 DEF HasLease
<1>10. ~row.tried => (\A i \in Ids : Closed(i)) /\ ~doc
      BY DEF IInv, Untried, Closed, Claims, Busy
<1>11. Operations'
      BY <1>1, <1>8, <1>9, <1>10 DEF IInv, Operations
<1>12. Document'
      BY <1>1, <1>9, <1>10 DEF IInv, Document
<1> QED
    BY <1>2, <1>5, <1>6, <1>7, <1>11, <1>12 DEF IInv

LEMMA CancelPreserves == ASSUME IInv, Cancel PROVE IInv'
<1>1. /\ row' = [row EXCEPT !.state = "cancelled", !.payload = FALSE] /\ MayCancel
      /\ UNCHANGED <<worker, hindsight, faults>> /\ row \in RowType /\ faults \in 0..MaxFaults
      BY DEF Cancel, OwnerOnly, IInv, TypeOK
<1>2. row' \in RowType
      BY <1>1 DEF RowType, Open, Terminal
<1>3. Shape' /\ OpenJobsAreWhole'
      BY <1>1 DEF RowType, MayCancel, IInv, Shape, OpenJobsAreWhole, Open
<1> QED
    BY <1>1, <1>2, <1>3, RowPreserves DEF RowType, IInv, Counts, Shape

LEMMA DeletePreserves == ASSUME IInv, Delete PROVE IInv'
<1>1. /\ UNCHANGED <<worker, hindsight, faults>> /\ row \in RowType /\ faults \in 0..MaxFaults
      /\ row.state \in {"pending", "accepted"} \cup (Terminal \ {"deleted"})
      BY DEF Delete, OwnerOnly, IInv, TypeOK
<1>2. CASE ~row.tried
  <2>1. row' = [row EXCEPT !.state = "deleted", !.payload = FALSE]
        BY <1>2 DEF Delete
  <2>2. row' \in RowType
        BY <1>1, <2>1 DEF RowType, Open, Terminal
  <2>3. Shape' /\ OpenJobsAreWhole'
        BY <1>1, <1>2, <2>1 DEF RowType, IInv, Shape, OpenJobsAreWhole, Open
  <2> QED
      BY <1>1, <1>2, <2>1, <2>2, <2>3, RowPreserves DEF RowType, IInv, Counts, Shape
<1>3. CASE row.tried
  <2>1. row' = [row EXCEPT !.state = "delete_pending", !.scope = TRUE, !.sends = 0, !.del = TRUE]
        BY <1>3 DEF Delete, IInv, Shape
  <2>2. row' \in RowType
        BY <1>1, <2>1 DEF RowType, Open, Terminal
  <2>3. Shape' /\ OpenJobsAreWhole'
        BY <1>1, <1>3, <2>1 DEF RowType, IInv, Shape, OpenJobsAreWhole, Open
  <2> QED
      BY <1>1, <1>3, <2>1, <2>2, <2>3, RowPreserves DEF RowType, IInv, Counts, Shape
<1> QED
    BY <1>1, <1>2, <1>3 DEF RowType

LEMMA RetryPreserves == ASSUME IInv, Retry PROVE IInv'
<1> DEFINE state == IF row.del THEN "delete_pending" ELSE "pending"
<1>1. /\ UNCHANGED <<worker, hindsight, faults>> /\ row \in RowType /\ faults \in 0..MaxFaults
      /\ MayRetry
      /\ row' = [row EXCEPT !.state = state, !.scope = TRUE, !.sends = 0, !.upBase = row.up,
                            !.rounds = @ + 1, !.lease = None, !.live = FALSE]
      BY DEF Retry, OwnerOnly, IInv, TypeOK
<1>2. row.rounds \in Nat /\ row.up \in Nat /\ row.upBase \in Nat
      BY <1>1, IdsAreNat DEF RowType
<1>3. row' \in RowType
  <2>1. row.rounds + 1 \in 0..MaxRounds
        BY <1>1, <1>2, LimitAssumption DEF MayRetry
  <2>2. state \in Open
        BY DEF Open
  <2> QED
      BY <1>1, <2>1, <2>2 DEF RowType
<1>4. /\ row'.state = state /\ row'.scope /\ row'.upBase = row.up /\ row'.rounds = row.rounds + 1
      /\ row'.lease = None /\ ~row'.live /\ row'.up = row.up /\ row'.tried = row.tried
      /\ row'.del = row.del /\ row'.payload = row.payload
      BY <1>1 DEF RowType
<1>5. Shape' /\ OpenJobsAreWhole'
      BY <1>1, <1>4 DEF MayRetry, IInv, Shape, OpenJobsAreWhole
<1>6. row'.upBase <= row'.rounds * MaxResubmits
  <2>1. row.up <= row.upBase + MaxResubmits /\ row.upBase <= row.rounds * MaxResubmits
        BY DEF IInv, Counts
  <2>2. (row.rounds + 1) * MaxResubmits = row.rounds * MaxResubmits + MaxResubmits
        BY <1>2, LimitAssumption, Multiply
  <2>3. row.rounds * MaxResubmits \in Nat
        BY <1>2, LimitAssumption
  <2> QED
      BY <1>2, <1>4, <2>1, <2>2, <2>3, LimitAssumption
<1> QED
    BY <1>1, <1>3, <1>4, <1>5, <1>6, RowPreserves

LEMMA CleanupPreserves == ASSUME IInv, Cleanup PROVE IInv'
<1>1. /\ row' = [row EXCEPT !.payload = FALSE, !.scope = FALSE] /\ row.state \in Terminal
      /\ UNCHANGED <<worker, hindsight, faults>> /\ row \in RowType /\ faults \in 0..MaxFaults
      BY DEF Cleanup, OwnerOnly, IInv, TypeOK
<1>2. row' \in RowType
      BY <1>1 DEF RowType
<1>3. Shape' /\ OpenJobsAreWhole'
      BY <1>1 DEF RowType, IInv, Shape, OpenJobsAreWhole, Open, Terminal
<1> QED
    BY <1>1, <1>2, <1>3, RowPreserves DEF RowType, IInv, Counts

LEMMA BuryPreserves == ASSUME IInv, Bury PROVE IInv'
<1>1. /\ row' = [row EXCEPT !.state = "dead"] /\ row.state = "processing"
      /\ UNCHANGED <<worker, hindsight, faults>> /\ row \in RowType /\ faults \in 0..MaxFaults
      BY DEF Bury, Exhausted, Lapsed, OwnerOnly, IInv, TypeOK
<1>2. row' \in RowType
      BY <1>1 DEF RowType, Terminal
<1>3. Shape' /\ OpenJobsAreWhole'
      BY <1>1 DEF RowType, IInv, Shape, OpenJobsAreWhole, Open
<1> QED
    BY <1>1, <1>2, <1>3, RowPreserves DEF RowType, IInv, Counts

LEMMA LeaseExpiresPreserves == ASSUME IInv, LeaseExpires PROVE IInv'
<1>1. /\ row' = [row EXCEPT !.live = FALSE]
      /\ UNCHANGED <<worker, hindsight>> /\ row \in RowType
      BY DEF LeaseExpires, IInv, TypeOK
<1>2. faults' \in 0..MaxFaults
      BY LimitAssumption DEF LeaseExpires, Fault, IInv, TypeOK
<1>3. row' \in RowType
      BY <1>1 DEF RowType
<1>4. Shape' /\ OpenJobsAreWhole'
      BY <1>1 DEF RowType, IInv, Shape, OpenJobsAreWhole
<1> QED
    BY <1>1, <1>2, <1>3, <1>4, RowPreserves DEF RowType, IInv, Counts

----------------------------------------------------------------------------
(* The workers *)

LEMMA ClaimPreserves == ASSUME IInv, NEW w \in Workers, Claim(w) PROVE IInv'
<1> DEFINE verifies == row.state = "accepted"
           sends == IF verifies THEN row.sends ELSE row.sends + 1
           job == [st |-> "claimed", outcome |-> "none", id |-> row.up,
                   kind |-> IF verifies THEN "verify" ELSE IF row.del THEN "delete" ELSE "retain",
                   sends |-> IF verifies THEN 0 ELSE sends,
                   resubmits |-> IF verifies THEN row.up - row.upBase ELSE 0]
<1>1. /\ TypeOK /\ row \in RowType /\ Due /\ ~Exhausted /\ ~Busy(w)
      /\ UNCHANGED <<op, sent, doc, faults>> /\ WorkerIs(w, job)
      /\ row' = [row EXCEPT !.state = IF verifies THEN "accepted" ELSE "processing",
                            !.tried = @ \/ ~verifies, !.sends = sends,
                            !.lease = w, !.live = TRUE]
      BY DEF Claim, hindsight, IInv, TypeOK, Busy
<1>2. /\ row.up \in Nat /\ row.upBase \in Nat /\ row.sends \in Nat /\ row.up \in Ids
      /\ row.upBase <= row.up
      BY <1>1, IdsAreNat DEF RowType, IInv, Counts
<1>3. job \in WorkerType
  <2>1. row.up - row.upBase \in Nat /\ sends \in Nat
        BY <1>2
  <2> HIDE DEF sends
  <2> QED
      BY <1>2, <2>1 DEF WorkerType, Outcomes
<1>4. /\ worker' \in [Workers -> WorkerType] /\ worker'[w] = job
      /\ \A v \in Workers \ {w} : worker'[v] = worker[v]
      BY <1>1, <1>3, OneWorker
<1>5. /\ row'.state = IF verifies THEN "accepted" ELSE "processing"
      /\ row'.tried = (row.tried \/ ~verifies) /\ row'.sends = sends /\ row'.lease = w
      /\ row'.live = TRUE /\ row'.up = row.up /\ row'.upBase = row.upBase
      /\ row'.rounds = row.rounds /\ row'.del = row.del /\ row'.payload = row.payload
      /\ row'.scope = row.scope
      BY <1>1 DEF RowType
<1>6. row' \in RowType
  <2>1. sends \in Nat
        BY <1>2
  <2>2. (row.tried \/ ~verifies) \in BOOLEAN
        OBVIOUS
  <2> HIDE DEF sends
  <2> QED
      BY <1>1, <2>1, <2>2 DEF RowType, Open
<1>7. TypeOK'
      BY <1>1, <1>4, <1>6 DEF TypeOK
<1>8. Due => row.state \in {"pending", "delete_pending", "processing", "accepted"}
      BY DEF Due, Lapsed
<1>9. row'.tried
      BY <1>5, <1>8 DEF IInv, Shape
<1>10. /\ job.st = "claimed" /\ job.outcome = "none" /\ job.id = row.up
       /\ verifies => job.kind = "verify" /\ job.resubmits = row.up - row.upBase
       /\ ~verifies => job.kind = IF row.del THEN "delete" ELSE "retain"
       OBVIOUS
<1> HIDE DEF job, sends
<1>11. Counts'
       BY <1>2, <1>4, <1>5, <1>10 DEF IInv, Counts, Busy
<1>12. Shape' /\ OpenJobsAreWhole' /\ Untried'
       BY <1>1, <1>5, <1>8, <1>9, NoneAssumption DEF IInv, Shape, OpenJobsAreWhole, Open, Untried
<1>13. Work'
       BY <1>1, <1>2, <1>4, <1>5, <1>10 DEF IInv, Work, Busy, Shape
<1>14. \A v \in Workers : ~(HasLease(v)' /\ worker'[v].outcome # "none")
       BY <1>4, <1>5, <1>10 DEF HasLease
<1>15. \A v \in Workers : ~(HasLease(v)' /\ worker'[v].st = "ended")
       BY <1>4, <1>5, <1>10 DEF HasLease
<1>16. \A i \in Ids : Closed(i) /\ i < row.up => Closed(i)'
       BY <1>1, <1>2, <1>4, <1>10, IdsAreNat DEF Closed, Claims
<1>17. Operations'
       BY <1>1, <1>5, <1>14, <1>15, <1>16 DEF IInv, Operations
<1>18. Document'
       BY <1>1, <1>4, <1>5, <1>10, <1>14 DEF IInv, Document
<1> QED
    BY <1>7, <1>11, <1>12, <1>13, <1>17, <1>18 DEF IInv

LEMMA RevokedPreserves == ASSUME IInv, NEW w \in Workers, Revoked(w) PROVE IInv'
<1>1. "revoked" \in OutcomesOf(worker[w].kind)
      BY DEF OutcomesOf
<1> QED
    BY <1>1, DonePreserves DEF Revoked, Busy, hindsight

LEMMA AcceptedPreserves == ASSUME IInv, NEW w \in Workers, Accepted(w) PROVE IInv'
<1>1. "accepted" \in OutcomesOf(worker[w].kind)
      BY DEF Accepted, At, OutcomesOf
<1> QED
    BY <1>1, DonePreserves DEF Accepted, At, Busy, hindsight

LEMMA CallFailsPreserves == ASSUME IInv, NEW w \in Workers, CallFails(w) PROVE IInv'
<1> DEFINE o == IF worker[w].kind = "verify" THEN "accepted" ELSE "retry"
<1>1. Busy(w) /\ worker[w].kind \in {"retain", "delete", "verify"}
      BY DEF CallFails, Busy, IInv, Work, TypeOK, WorkerType
<1>2. o \in OutcomesOf(worker[w].kind)
      BY <1>1 DEF OutcomesOf
<1>3. Done(w, o) /\ UNCHANGED <<row, op, sent, doc, faults>> /\ o \in {"accepted", "retry"}
      BY DEF CallFails, hindsight
<1> QED
    BY <1>1, <1>2, <1>3, DonePreserves

\* The record of a worker that goes on to `st` with its job.
LEMMA GoesOn ==
    ASSUME TypeOK, NEW w \in Workers, NEW st \in {"called", "ended"},
           WorkerIs(w, [worker[w] EXCEPT !.st = st])
    PROVE  /\ worker' \in [Workers -> WorkerType]
           /\ \A v \in Workers \ {w} : worker'[v] = worker[v]
           /\ worker'[w].st = st /\ worker'[w].kind = worker[w].kind
           /\ worker'[w].id = worker[w].id /\ worker'[w].outcome = worker[w].outcome
<1>1. worker[w] \in WorkerType
      BY DEF TypeOK
<1>2. [worker[w] EXCEPT !.st = st] \in WorkerType
      BY <1>1 DEF WorkerType
<1> QED
    BY <1>1, <1>2, OneWorker DEF WorkerType

LEMMA SendPreserves == ASSUME IInv, NEW w \in Workers, Send(w) PROVE IInv'
<1>1. /\ TypeOK /\ worker[w].kind = "retain" /\ worker[w].st = "claimed"
      /\ WorkerIs(w, [worker[w] EXCEPT !.st = "called"])
      /\ sent' = sent \cup {worker[w].id} /\ UNCHANGED <<row, op, doc, faults>>
      BY DEF Send, At, IInv
<1>2. /\ worker' \in [Workers -> WorkerType]
      /\ \A v \in Workers \ {w} : worker'[v] = worker[v]
      /\ worker'[w].st = "called" /\ worker'[w].kind = worker[w].kind
      /\ worker'[w].id = worker[w].id /\ worker'[w].outcome = worker[w].outcome
      BY <1>1, GoesOn
<1>3. worker[w].id \in Ids /\ worker[w].id <= row.up /\ row.tried
      BY <1>1 DEF TypeOK, WorkerType, IInv, Work, Untried, Busy
<1>4. TypeOK'
      BY <1>1, <1>2, <1>3 DEF TypeOK
<1>5. Counts' /\ Shape' /\ OpenJobsAreWhole' /\ Untried'
      BY <1>1, <1>2, <1>3 DEF IInv, Counts, Shape, OpenJobsAreWhole, Untried, Busy
<1>6. Work'
      BY <1>1, <1>2 DEF IInv, Work, Busy
<1>7. \A i : Closed(i) => Closed(i)'
      BY <1>1, <1>2 DEF Closed, Claims
<1>8. Operations'
      BY <1>1, <1>2, <1>3, <1>7 DEF IInv, Operations, HasLease
<1>9. Document'
      BY <1>1, <1>2 DEF IInv, Document, HasLease
<1> QED
    BY <1>4, <1>5, <1>6, <1>8, <1>9 DEF IInv

LEMMA AskDeletePreserves == ASSUME IInv, NEW w \in Workers, AskDelete(w) PROVE IInv'
<1>1. /\ TypeOK /\ worker[w].kind = "delete" /\ worker[w].st = "claimed" /\ Busy(w)
      /\ UNCHANGED <<row, op, sent, doc, faults>>
      BY DEF AskDelete, At, IInv, hindsight, Busy
<1>2. CASE op[worker[w].id] \in Over
  <2>1. WorkerIs(w, [worker[w] EXCEPT !.st = "ended"])
        BY <1>2 DEF AskDelete
  <2>2. /\ worker' \in [Workers -> WorkerType]
        /\ \A v \in Workers \ {w} : worker'[v] = worker[v]
        /\ worker'[w].st = "ended" /\ worker'[w].kind = worker[w].kind
        /\ worker'[w].id = worker[w].id /\ worker'[w].outcome = worker[w].outcome
        BY <1>1, <2>1, GoesOn
  <2>3. TypeOK'
        BY <1>1, <2>2 DEF TypeOK
  <2>4. Counts' /\ Shape' /\ OpenJobsAreWhole' /\ Untried'
        BY <1>1, <2>2 DEF IInv, Counts, Shape, OpenJobsAreWhole, Untried, Busy
  <2>5. Work'
        BY <1>1, <2>2 DEF IInv, Work, Busy
  <2>6. \A i : Closed(i) => Closed(i)'
        BY <1>1, <2>2 DEF Closed, Claims
  <2>7. HasLease(w) => Closed(row.up)
        BY <1>1, <1>2 DEF HasLease, IInv, Work, Closed, Over
  <2>8. Operations'
        BY <1>1, <2>2, <2>6, <2>7 DEF IInv, Operations, HasLease
  <2>9. Document'
        BY <1>1, <2>2 DEF IInv, Document, HasLease
  <2> QED
      BY <2>3, <2>4, <2>5, <2>8, <2>9 DEF IInv
<1>3. CASE op[worker[w].id] \notin Over
  <2>1. Done(w, "retry") /\ "retry" \in OutcomesOf(worker[w].kind)
        BY <1>1, <1>3 DEF AskDelete, OutcomesOf
  <2> QED
      BY <1>1, <2>1, DonePreserves
<1> QED
    BY <1>2, <1>3

LEMMA DeleteDocumentPreserves == ASSUME IInv, NEW w \in Workers, DeleteDocument(w) PROVE IInv'
<1>1. /\ Busy(w) /\ worker[w].kind = "delete" /\ row.del /\ doc' = FALSE
      /\ UNCHANGED <<row, op, sent, faults>>
      BY DEF DeleteDocument, IInv, Work, Busy
<1>2. HasLease(w) => Closed(row.up)
      BY DEF DeleteDocument, IInv, Operations
<1>3. {"deleted", "retry"} \subseteq OutcomesOf(worker[w].kind)
      BY <1>1 DEF OutcomesOf
<1>4. PICK o \in {"deleted", "retry"} : Done(w, o)
      BY DEF DeleteDocument
<1> QED
    BY <1>1, <1>2, <1>3, <1>4, DonePreserves

LEMMA VerifyPreserves == ASSUME IInv, NEW w \in Workers, Verify(w) PROVE IInv'
<1> DEFINE was == op[worker[w].id]
<1>1. /\ TypeOK /\ worker[w].kind = "verify" /\ worker[w].st = "claimed" /\ Busy(w)
      /\ worker[w].id \in Ids
      /\ UNCHANGED <<row, op, sent, doc, faults>>
      BY DEF Verify, At, IInv, hindsight, Busy, TypeOK, WorkerType
<1>2. PICK o \in {"completed", "dead", "accepted", "resubmit"} :
          /\ Done(w, o)
          /\ o = "completed" => was = "completed"
          /\ o = "resubmit" => was \in Lost /\ ~Resubmitted(worker[w])
      BY DEF Verify
<1>3. o \in OutcomesOf(worker[w].kind)
      BY <1>1 DEF OutcomesOf
<1>4. o = "resubmit" /\ row.lease = w => row.up < row.upBase + MaxResubmits
  <2>1. row.up \in Nat /\ row.upBase \in Nat
        BY <1>1, IdsAreNat DEF TypeOK, RowType
  <2>2. row.lease = w => worker[w].resubmits = row.up - row.upBase
        BY <1>1 DEF IInv, Counts
  <2> QED
      BY <1>2, <2>1, <2>2, LimitAssumption DEF Resubmitted
<1>5. o = "resubmit" /\ HasLease(w) => Closed(row.up)
      BY <1>1, <1>2 DEF HasLease, IInv, Work, Closed, Lost
<1>6. o = "completed" /\ ~row.del => doc
      BY <1>1, <1>2 DEF IInv, Document
<1> QED
    BY <1>1, <1>2, <1>3, <1>4, <1>5, <1>6, DonePreserves

\* A worker gives up its job, its claim stays in the row.
LEMMA LeavesPreserves ==
    ASSUME IInv, NEW w \in Workers, WorkerIs(w, Idle),
           UNCHANGED <<row, hindsight>>, faults' \in 0..MaxFaults
    PROVE  IInv'
<1>1. TypeOK /\ UNCHANGED <<row, op, sent, doc>>
      BY DEF IInv, hindsight
<1>2. Idle \in WorkerType
      BY IdsAreNat DEF Idle, WorkerType, Outcomes
<1>3. /\ worker' \in [Workers -> WorkerType] /\ worker'[w] = Idle
      /\ \A v \in Workers \ {w} : worker'[v] = worker[v]
      BY <1>1, <1>2, OneWorker
<1>4. Idle.st = "idle" /\ Idle.outcome = "none"
      BY DEF Idle
<1>5. TypeOK'
      BY <1>1, <1>3 DEF TypeOK
<1>6. Counts' /\ Shape' /\ OpenJobsAreWhole' /\ Untried'
      BY <1>1, <1>3, <1>4 DEF IInv, Counts, Shape, OpenJobsAreWhole, Untried, Busy
<1>7. Work'
      BY <1>1, <1>3, <1>4 DEF IInv, Work, Busy
<1>8. \A i : Closed(i) => Closed(i)'
      BY <1>1, <1>3, <1>4 DEF Closed, Claims
<1>9. Operations'
      BY <1>1, <1>3, <1>4, <1>8 DEF IInv, Operations, HasLease
<1>10. Document'
      BY <1>1, <1>3, <1>4 DEF IInv, Document, HasLease
<1> QED
    BY <1>5, <1>6, <1>7, <1>9, <1>10 DEF IInv

\* What the holder of the lease knows when it records its outcome.
LEMMA OutcomeKnown ==
    ASSUME IInv, NEW w \in Workers, worker[w].st = "done", HasLease(w)
    PROVE  LET o == worker[w].outcome
           IN  /\ o \in {"accepted", "retry", "revoked", "deleted", "completed", "dead", "resubmit"}
               /\ worker[w].id = row.up
               /\ o \in {"accepted", "completed", "dead", "resubmit"} => ~row.del
               /\ o = "retry" => (row.del <=> worker[w].kind = "delete")
               /\ o = "deleted" => row.del /\ ~doc /\ Closed(row.up)
               /\ o = "completed" => doc
               /\ o = "resubmit" => Closed(row.up) /\ row.up < row.upBase + MaxResubmits
               /\ row.state \in {"processing", "accepted"} /\ row.tried
<1> DEFINE o == worker[w].outcome
<1>1. /\ Busy(w) /\ row.lease = w /\ row.state \in {"processing", "accepted"}
      /\ worker[w].kind \in {"retain", "delete", "verify"}
      BY DEF Busy, HasLease, IInv, Work, TypeOK, WorkerType
<1>2. /\ worker[w].id = row.up /\ o \in OutcomesOf(worker[w].kind)
      /\ worker[w].kind = "delete" => row.del
      /\ row.state = "accepted" => worker[w].kind = "verify"
      /\ row.state = "processing" => worker[w].kind = IF row.del THEN "delete" ELSE "retain"
      BY <1>1 DEF IInv, Work
<1>3. row.state = "accepted" => ~row.del
      BY DEF IInv, Shape
<1>4. row.tried
      BY <1>1 DEF IInv, Shape
<1>5. /\ worker[w].kind = "retain" => o \in {"accepted", "retry", "revoked"} /\ ~row.del
      /\ worker[w].kind = "delete" => o \in {"deleted", "retry", "revoked"} /\ row.del
      /\ worker[w].kind = "verify"
         => o \in {"accepted", "completed", "dead", "resubmit", "revoked"} /\ ~row.del
      BY <1>1, <1>2, <1>3 DEF OutcomesOf
<1>6. o = "deleted" => ~doc
      BY DEF IInv, Document
<1>7. o \in {"deleted", "resubmit"} => Closed(row.up)
      BY DEF IInv, Operations
<1>8. o = "resubmit" => row.up < row.upBase + MaxResubmits
      BY <1>1 DEF IInv, Counts
<1>9. o = "completed" /\ ~row.del => doc
      BY DEF IInv, Document
<1> HIDE DEF o
<1>10. /\ o \in {"accepted", "retry", "revoked", "deleted", "completed", "dead", "resubmit"}
       /\ o \in {"accepted", "completed", "dead", "resubmit"} => ~row.del
       /\ o = "retry" => (row.del <=> worker[w].kind = "delete")
       /\ o = "deleted" => row.del
       BY <1>1, <1>5
<1> QED
    BY <1>1, <1>2, <1>4, <1>6, <1>7, <1>8, <1>9, <1>10 DEF o

\* The row with an outcome.
LEMMA FinishedRow ==
    ASSUME row \in RowType, NEW j, NEW o, row' = Finished(j, o),
           o \in {"accepted", "retry", "revoked", "deleted", "completed", "dead", "resubmit"},
           o = "resubmit" => j.id + 1 \in Ids
    PROVE  /\ row' \in RowType
           /\ row'.lease = None /\ row'.live = FALSE /\ row'.tried = row.tried
           /\ row'.upBase = row.upBase /\ row'.rounds = row.rounds /\ row'.del = row.del
           /\ row'.scope = row.scope
           /\ row'.payload = IF o \in {"deleted", "revoked"} THEN FALSE ELSE row.payload
           /\ row'.up = IF o = "resubmit" THEN j.id + 1 ELSE row.up
           /\ o \in {"accepted", "completed", "dead", "revoked", "deleted"} => row'.state = o
           /\ o = "resubmit" => row'.state = "pending"
           /\ o = "retry" => row'.state \in {"dead", IF j.kind = "delete" THEN "delete_pending"
                                                     ELSE "pending"}
<1>1. CASE o = "resubmit"
  <2>1. PICK n \in Ids : n = j.id + 1
        BY <1>1
  <2>2. row' = [row EXCEPT !.lease = None, !.live = FALSE, !.state = "pending",
                           !.up = n, !.sends = 0]
        BY <1>1, <2>1 DEF Finished, RowType
  <2>3. row' \in RowType
    <3>1. "pending" \in Open /\ 0 \in Nat /\ row.up \in Ids
          BY DEF Open, RowType
    <3>2. [row EXCEPT !.lease = None, !.live = FALSE, !.state = "pending"] \in RowType
          BY <3>1 DEF RowType
    <3>3. row' = [[row EXCEPT !.lease = None, !.live = FALSE, !.state = "pending"]
                    EXCEPT !.up = n, !.sends = 0]
          BY <2>2
    <3> QED
        BY <3>1, <3>2, <3>3 DEF RowType
  <2> QED
      BY <1>1, <2>1, <2>2, <2>3 DEF RowType
<1>2. CASE o = "retry"
  <2>1. PICK state \in {"dead", IF j.kind = "delete" THEN "delete_pending" ELSE "pending"} :
            row' = [row EXCEPT !.lease = None, !.live = FALSE, !.state = state]
        BY <1>2 DEF Finished, RowType
  <2>2. state \in {"dead", "delete_pending", "pending"}
        BY <2>1
  <2>3. row' \in RowType
        BY <2>1, <2>2 DEF RowType, Open, Terminal
  <2> QED
      BY <1>2, <2>1, <2>3 DEF RowType
<1>3. CASE o \in {"deleted", "revoked"}
  <2>1. row' = [row EXCEPT !.lease = None, !.live = FALSE, !.state = o, !.payload = FALSE]
        BY <1>3 DEF Finished, RowType
  <2> QED
      BY <1>3, <2>1 DEF RowType, Terminal
<1>4. CASE o \in {"accepted", "completed", "dead"}
  <2>1. row' = [row EXCEPT !.lease = None, !.live = FALSE, !.state = o]
        BY <1>4 DEF Finished, RowType
  <2> QED
      BY <1>4, <2>1 DEF RowType, Open, Terminal
<1> QED
    BY <1>1, <1>2, <1>3, <1>4

LEMMA FinishPreserves == ASSUME IInv, NEW w \in Workers, Finish(w) PROVE IInv'
<1> DEFINE o == worker[w].outcome
<1>1. /\ TypeOK /\ row \in RowType /\ worker[w].st = "done" /\ WorkerIs(w, Idle)
      /\ UNCHANGED hindsight /\ UNCHANGED <<op, sent, doc, faults>> /\ faults \in 0..MaxFaults
      BY DEF Finish, IInv, TypeOK, hindsight
<1>2. CASE ~HasLease(w)
      BY <1>1, <1>2, LeavesPreserves DEF Finish
<1>3. CASE HasLease(w)
  <2>1. row' = Finished(worker[w], o)
        BY <1>3 DEF Finish
  <2>2. /\ o \in {"accepted", "retry", "revoked", "deleted", "completed", "dead", "resubmit"}
        /\ worker[w].id = row.up
        /\ o \in {"accepted", "completed", "dead", "resubmit"} => ~row.del
        /\ o = "retry" => (row.del <=> worker[w].kind = "delete")
        /\ o = "deleted" => row.del /\ ~doc /\ Closed(row.up)
        /\ o = "completed" => doc
        /\ o = "resubmit" => Closed(row.up) /\ row.up < row.upBase + MaxResubmits
        /\ row.state \in {"processing", "accepted"} /\ row.tried
        BY <1>1, <1>3, OutcomeKnown
  <2>3. /\ row.up \in Nat /\ row.upBase \in Nat /\ row.rounds \in 0..MaxRounds
        /\ row.upBase <= row.up
        /\ row.up <= row.upBase + MaxResubmits /\ row.upBase <= row.rounds * MaxResubmits
        BY <1>1, IdsAreNat DEF RowType, IInv, Counts
  <2>4. o = "resubmit" => worker[w].id + 1 \in Ids
    <3>1. /\ row.rounds * MaxResubmits <= MaxRounds * MaxResubmits
          /\ (MaxRounds + 1) * MaxResubmits = MaxRounds * MaxResubmits + MaxResubmits
          BY <2>3, LimitAssumption, Multiply
    <3>2. row.rounds * MaxResubmits \in Nat /\ MaxRounds * MaxResubmits \in Nat
          BY <2>3, LimitAssumption
    <3>3. o = "resubmit" => row.up + 1 <= (MaxRounds + 1) * MaxResubmits
          BY <2>2, <2>3, <3>1, <3>2, LimitAssumption
    <3>4. (MaxRounds + 1) * MaxResubmits \in Nat
          BY <3>1, <3>2, LimitAssumption
    <3> QED
        BY <2>2, <2>3, <3>3, <3>4 DEF Ids
  <2> HIDE DEF o
  <2>5. /\ row' \in RowType
        /\ row'.lease = None /\ row'.live = FALSE /\ row'.tried = row.tried
        /\ row'.upBase = row.upBase /\ row'.rounds = row.rounds /\ row'.del = row.del
        /\ row'.scope = row.scope
        /\ row'.payload = IF o \in {"deleted", "revoked"} THEN FALSE ELSE row.payload
        /\ row'.up = IF o = "resubmit" THEN worker[w].id + 1 ELSE row.up
        /\ o \in {"accepted", "completed", "dead", "revoked", "deleted"} => row'.state = o
        /\ o = "resubmit" => row'.state = "pending"
        /\ o = "retry" => row'.state \in {"dead", IF worker[w].kind = "delete" THEN "delete_pending"
                                                  ELSE "pending"}
        BY <1>1, <2>1, <2>2, <2>4, FinishedRow
  <2>6. row'.up = row.up \/ (row'.up = row.up + 1 /\ o = "resubmit")
        BY <2>2, <2>5
  <2>7. Idle \in WorkerType /\ Idle.st = "idle" /\ Idle.outcome = "none"
        BY IdsAreNat DEF Idle, WorkerType, Outcomes
  <2>8. /\ worker' \in [Workers -> WorkerType] /\ worker'[w] = Idle
        /\ \A v \in Workers \ {w} : worker'[v] = worker[v]
        BY <1>1, <2>7, OneWorker
  <2>9. \A v \in Workers : row'.lease # v /\ ~HasLease(v)'
        BY <2>5, NoneAssumption DEF HasLease
  <2>10. TypeOK'
         BY <1>1, <2>5, <2>8 DEF TypeOK
  <2>11. Counts'
         BY <2>2, <2>3, <2>5, <2>6, <2>9, LimitAssumption DEF Counts
  <2>12. row.scope /\ (row.payload \/ row.del)
         BY <2>2 DEF IInv, OpenJobsAreWhole, Open
  <2>13. Shape' /\ OpenJobsAreWhole' /\ Untried'
         BY <2>2, <2>5, <2>12 DEF Shape, OpenJobsAreWhole, Open, Untried
  <2>14. Work'
    <3>1. \A v \in Workers : worker[v].id \in Nat
          BY <1>1, IdsAreNat DEF TypeOK, WorkerType
    <3>2. \A v \in Workers : worker[v].id <= row.up => worker[v].id <= row'.up
          BY <2>3, <2>6, <3>1
    <3> QED
        BY <2>5, <2>7, <2>8, <2>9, <3>2 DEF IInv, Work, Busy
  <2>15. \A i : Closed(i) => Closed(i)'
         BY <1>1, <2>7, <2>8 DEF Closed, Claims
  <2>16. \A i \in Ids : i > row.up => op[i] = "unknown" /\ i \notin sent
    <3>1. Operations
          BY DEF IInv
    <3> QED
        BY <2>3, <3>1, IdsAreNat DEF Operations
  <2>17. \A i \in Ids : i > row.up => Closed(i)
         BY <1>1, <2>3, <2>16, IdsAreNat DEF Closed, Claims, IInv, Work, Busy, TypeOK, WorkerType
  <2>18. \A i \in Ids : i < row.up => Closed(i)
         BY DEF IInv, Operations
  <2>19. o \in {"deleted", "resubmit"} => Closed(row.up)
         BY <2>2
  <2>20. o = "deleted" => \A i \in Ids : Closed(i)
         BY <2>3, <2>17, <2>18, <2>19, IdsAreNat
  <2>21. row'.state = "deleted" => o = "deleted"
         BY <2>2, <2>5
  <2>22. \A i \in Ids : i < row'.up => Closed(i)
         BY <2>3, <2>6, <2>18, <2>19, IdsAreNat
  <2>23. \A i \in Ids : op[i] # "unknown" \/ i \in sent => i <= row'.up
         BY <2>3, <2>6, <2>16, IdsAreNat
  <2>24. Operations'
         BY <1>1, <2>9, <2>15, <2>20, <2>21, <2>22, <2>23 DEF Operations
  <2>25. row'.state = "completed" => o = "completed"
         BY <2>2, <2>5
  <2>26. Document'
         BY <1>1, <2>2, <2>5, <2>7, <2>8, <2>9, <2>21, <2>25 DEF IInv, Document
  <2> QED
      BY <2>10, <2>11, <2>13, <2>14, <2>24, <2>26 DEF IInv
<1> QED
    BY <1>2, <1>3

LEMMA CrashPreserves == ASSUME IInv, NEW w \in Workers, Crash(w) PROVE IInv'
<1>1. faults' \in 0..MaxFaults
      BY LimitAssumption DEF Crash, Fault, IInv, TypeOK
<1> QED
    BY <1>1, LeavesPreserves DEF Crash

----------------------------------------------------------------------------
(* Hindsight *)

LEMMA ArrivePreserves == ASSUME IInv, NEW i \in Ids, Arrive(i) PROVE IInv'
<1>1. /\ TypeOK /\ i \in sent /\ op[i] = "unknown" /\ op' = [op EXCEPT ![i] = "running"]
      /\ UNCHANGED <<row, worker, sent, doc, faults>>
      BY DEF Arrive, IInv
<1>2. ~Closed(i) /\ row.tried
      BY <1>1 DEF Closed, IInv, Untried
<1>3. op' \in [Ids -> {"unknown", "running", "completed", "failed", "cancelled"}]
      /\ op'[i] = "running" /\ \A k \in Ids \ {i} : op'[k] = op[k]
      BY <1>1 DEF TypeOK
<1>4. TypeOK'
      BY <1>1, <1>3 DEF TypeOK
<1>5. Counts' /\ Shape' /\ OpenJobsAreWhole' /\ Untried' /\ Work'
      BY <1>1, <1>2 DEF IInv, Counts, Shape, OpenJobsAreWhole, Untried, Work, Busy
<1>6. \A k \in Ids : Closed(k) => Closed(k)'
      BY <1>1, <1>2, <1>3 DEF Closed, Claims
<1>7. Operations'
      BY <1>1, <1>3, <1>6 DEF IInv, Operations, HasLease, TypeOK, RowType
<1>8. Document'
      BY <1>1, <1>3 DEF IInv, Document, HasLease
<1> QED
    BY <1>4, <1>5, <1>7, <1>8 DEF IInv

LEMMA ExtractionEndsPreserves == ASSUME IInv, NEW i \in Ids, ExtractionEnds(i) PROVE IInv'
<1>1. /\ TypeOK /\ op[i] = "running" /\ UNCHANGED <<row, worker, sent, faults>>
      BY DEF ExtractionEnds, IInv
<1>2. PICK s \in {"completed", "failed", "cancelled"} :
          /\ op' = [op EXCEPT ![i] = s]
          /\ doc' \in {doc, TRUE} /\ (s = "completed" => doc' = TRUE)
      BY DEF ExtractionEnds
<1>3. /\ op' \in [Ids -> {"unknown", "running", "completed", "failed", "cancelled"}]
      /\ op'[i] = s /\ \A k \in Ids \ {i} : op'[k] = op[k]
      BY <1>1, <1>2 DEF TypeOK
<1>4. ~Closed(i) /\ row.tried /\ i = row.up
  <2>1. ~Closed(i) /\ row.tried
        BY <1>1 DEF Closed, IInv, Untried
  <2>2. i <= row.up /\ ~(i < row.up) /\ row.up \in Ids
        BY <1>1, <2>1 DEF IInv, Operations, TypeOK, RowType
  <2>3. i \in Nat /\ row.up \in Nat
        BY <2>2, IdsAreNat
  <2> QED
      BY <2>1, <2>2, <2>3
<1>5. TypeOK'
      BY <1>1, <1>2, <1>3 DEF TypeOK
<1>6. Counts' /\ Shape' /\ OpenJobsAreWhole' /\ Untried' /\ Work'
      BY <1>1, <1>4 DEF IInv, Counts, Shape, OpenJobsAreWhole, Untried, Work, Busy
<1>7. \A k \in Ids : Closed(k) => Closed(k)'
      BY <1>1, <1>3, <1>4 DEF Closed, Claims
<1>8. Operations'
      BY <1>1, <1>3, <1>7 DEF IInv, Operations, HasLease, TypeOK, RowType
<1>9. \A w \in Workers : HasLease(w) => worker[w].outcome # "deleted"
      BY <1>4 DEF IInv, Operations
<1>10. row.state # "deleted"
       BY <1>4 DEF IInv, Operations
<1>11. doc => doc'
       BY <1>2
<1>12. \A k \in Ids : op'[k] = "completed" => op[k] = "completed" \/ doc'
       BY <1>2, <1>3
<1>13. Document'
       BY <1>1, <1>9, <1>10, <1>11, <1>12 DEF IInv, Document, HasLease
<1> QED
    BY <1>5, <1>6, <1>8, <1>13 DEF IInv

LEMMA ForgetPreserves == ASSUME IInv, NEW i \in Ids, Forget(i) PROVE IInv'
<1>1. /\ TypeOK /\ op[i] # "unknown" /\ op' = [op EXCEPT ![i] = "unknown"]
      /\ sent' = sent \ {i} /\ UNCHANGED <<row, worker, doc>>
      /\ \A w \in Workers : ~(Claims(w) /\ worker[w].id = i)
      BY DEF Forget, IInv, Claims
<1>2. /\ op' \in [Ids -> {"unknown", "running", "completed", "failed", "cancelled"}]
      /\ op'[i] = "unknown" /\ \A k \in Ids \ {i} : op'[k] = op[k]
      BY <1>1 DEF TypeOK
<1>3. row.tried
      BY <1>1 DEF IInv, Untried
<1>4. TypeOK'
  <2>1. faults' \in 0..MaxFaults
        BY <1>1, LimitAssumption DEF Forget, Fault, TypeOK
  <2> QED
      BY <1>1, <1>2, <2>1 DEF TypeOK
<1>5. Counts' /\ Shape' /\ OpenJobsAreWhole' /\ Untried' /\ Work'
      BY <1>1, <1>3 DEF IInv, Counts, Shape, OpenJobsAreWhole, Untried, Work, Busy
<1>6. \A k \in Ids : Closed(k) => Closed(k)'
      BY <1>1, <1>2 DEF Closed, Claims
<1>7. Operations'
      BY <1>1, <1>2, <1>6 DEF IInv, Operations, HasLease, TypeOK, RowType
<1>8. Document'
      BY <1>1, <1>2 DEF IInv, Document, HasLease
<1> QED
    BY <1>4, <1>5, <1>7, <1>8 DEF IInv

----------------------------------------------------------------------------
(* The theorems *)

LEMMA NextInv == IInv /\ [Next]_vars => IInv'
<1>1. SUFFICES ASSUME IInv, [Next]_vars PROVE IInv'
      OBVIOUS
<1>2. CASE Owner
      BY <1>1, <1>2, PutPreserves, CancelPreserves, DeletePreserves, RetryPreserves,
         CleanupPreserves DEF Owner
<1>3. CASE Bury \/ LeaseExpires
      BY <1>1, <1>3, BuryPreserves, LeaseExpiresPreserves
<1>4. CASE Hindsight
      BY <1>1, <1>4, ArrivePreserves, ExtractionEndsPreserves, ForgetPreserves DEF Hindsight
<1>5. ASSUME NEW w \in Workers, WorkerStep(w) \/ Revoked(w) \/ Crash(w) PROVE IInv'
      BY <1>1, <1>5, ClaimPreserves, SendPreserves, AcceptedPreserves, CallFailsPreserves,
         AskDeletePreserves, DeleteDocumentPreserves, VerifyPreserves, FinishPreserves,
         RevokedPreserves, CrashPreserves DEF WorkerStep
<1>6. CASE UNCHANGED vars
  <2>1. UNCHANGED <<row, worker, op, sent, doc, faults>>
        BY <1>6 DEF vars, hindsight
  <2> QED
      BY <1>1, <2>1 DEF IInv, TypeOK, Counts, Shape, Untried, OpenJobsAreWhole, Work, Operations,
         Document, Closed, Claims, Busy, HasLease
<1> QED
    BY <1>1, <1>2, <1>3, <1>4, <1>5, <1>6 DEF Next, Settled

LEMMA Invariant == Spec => []IInv
BY InitInv, NextInv, PTL DEF Spec

\* Every field keeps its type: the upstream ids stay within what the rounds of
\* retries and the resubmissions of each allow (outbox_retry, verify).
THEOREM TypeCorrect == Spec => []TypeOK
<1>1. IInv => TypeOK
      BY DEF IInv
<1> QED
    BY <1>1, Invariant, PTL

\* What is deleted stays deleted (deliver, "delete only when no write can follow").
THEOREM DeletedStaysDeleted == Spec => []DeletedIsGone
<1>1. IInv => DeletedIsGone
      BY DEF IInv, DeletedIsGone, Operations, Document, Closed
<1> QED
    BY <1>1, Invariant, PTL

\* A completed job has its document in Hindsight (verify, outbox_finish).
THEOREM CompletedStaysStored == Spec => []CompletedIsStored
<1>1. IInv => CompletedIsStored
      BY DEF IInv, CompletedIsStored, Document
<1> QED
    BY <1>1, Invariant, PTL

\* A cancelled job was not sent and no worker has it (outbox_cancel).
THEOREM CancelledStaysUnsent == Spec => []CancelledWasNeverSent
<1>1. IInv => CancelledWasNeverSent
      BY DEF IInv, CancelledWasNeverSent, Shape, Untried, Busy
<1> QED
    BY <1>1, Invariant, PTL

\* A job that a worker may claim has its scope, and its payload if it needs one
\* (cleanup, outbox_retry, outbox_delete).
THEOREM OpenStaysWhole == Spec => []OpenJobsAreWhole
<1>1. IInv => OpenJobsAreWhole
      BY DEF IInv
<1> QED
    BY <1>1, Invariant, PTL

\* At most one extraction of a job is at work (verify, upstream_id).
THEOREM ExtractionsAreAlone == Spec => []OneExtraction
<1>1. IInv => OneExtraction
  <2>1. SUFFICES ASSUME IInv PROVE OneExtraction
        OBVIOUS
  <2> DEFINE Running == {i \in Ids : op[i] = "running"}
  <2>2. row.up \in Nat
        BY <2>1, IdsAreNat DEF IInv, TypeOK, RowType
  <2>3. \A i \in Running : i \in Nat /\ i <= row.up /\ ~(i < row.up)
        BY <2>1, IdsAreNat DEF IInv, Operations, Closed
  <2>4. \A i \in Running : i = row.up
        BY <2>2, <2>3
  <2> HIDE DEF Running
  <2>5. Running = {} \/ Running = {row.up}
        BY <2>4
  <2>6. Cardinality({}) = 0 /\ Cardinality({row.up}) = 1
        BY FS_EmptySet, FS_Singleton
  <2>7. Cardinality(Running) \in {0, 1}
        BY <2>5, <2>6
  <2> QED
      BY <2>7 DEF OneExtraction, Running
<1> QED
    BY <1>1, Invariant, PTL

-----------------------------------------------------------------------------
\* Who reads and writes which memory (MemoryAccess), for any people, agents and banks.

\* The grant of a client for a project, with the shared scope it leads to.
GrantOf(policy, client, project) == policy[client].projects[project]
OpenTo(shared, g) == g.cloud /\ (g.scope # Nothing => shared[g.scope].cloud)
ScopeOf(shared, g, client, project) ==
    [client |-> client, project |-> project, class |-> g.class,
     read |-> g.read, write |-> g.write, delete |-> g.delete, shared |-> g.scope,
     cloud |-> OpenTo(shared, g),
     private |-> g.private /\ ~g.cloud /\ ~(g.scope # Nothing /\ shared[g.scope].cloud)]

\* What scope_for_principal checks before it grants a scope, and what the scope is then.
LEMMA ScopeIsGranted ==
    ASSUME NEW shared, NEW policy, NEW client, NEW project, NEW read, NEW write, NEW explicit,
           ~IsDenied(ScopeFor(shared, policy, client, project, read, write, explicit))
    PROVE  LET g == GrantOf(policy, client, project)
           IN  /\ ScopeFor(shared, policy, client, project, read, write, explicit)
                    = Granted(ScopeOf(shared, g, client, project))
               /\ project \in DOMAIN policy[client].projects
               /\ Managed(policy[client], explicit)
               /\ read => g.read
               /\ write => g.write /\ ~(policy[client].class > g.class)
               /\ g.scope # Nothing => g.scope \in DOMAIN shared /\ shared[g.scope].class = g.class
<1> DEFINE a == ScopeFor(shared, policy, client, project, read, write, explicit)
           g == GrantOf(policy, client, project)
           c == policy[client]
           fits == g.scope # Nothing => g.scope \in DOMAIN shared /\ shared[g.scope].class = g.class
           refused == \/ project \notin DOMAIN c.projects \/ ~Managed(c, explicit)
                      \/ (read /\ ~g.read) \/ (write /\ ~g.write)
                      \/ (write /\ c.class > g.class) \/ ~fits
<1>1. a = IF refused THEN Denied ELSE Granted(ScopeOf(shared, g, client, project))
  BY DEF ScopeFor, ScopeOf, GrantOf, OpenTo
<1>2. IsDenied(Denied)
  BY DEF IsDenied, Denied
<1>3. ~refused
  BY <1>1, <1>2
<1> QED
  BY <1>1, <1>3

LEMMA HigherIsAbove ==
    ASSUME NEW x \in Int, NEW y \in Int
    PROVE  HigherOf(x, y) \in Int /\ HigherOf(x, y) >= x /\ HigherOf(x, y) >= y
  BY DEF HigherOf

LEMMA GrantedValue == ASSUME NEW x PROVE ~IsDenied(Granted(x)) /\ Granted(x).value = x
  BY DEF IsDenied, Granted

\* Two clients meet in a bank only by the same shared scope and with the same class; what
\* one of them leaves there with private addresses never goes to a cloud for the other, and
\* the operations of the one are never taken for the other's. This holds of any policies, of
\* any projects and whatever each of them asks for (memory.py, memory_config.py).
THEOREM BanksAreApart ==
    ASSUME NEW shared, NEW policy, NEW c, NEW d, c # d,
           NEW p, NEW q, NEW e, NEW f,
           NEW read, NEW write, NEW explicit, NEW read2, NEW write2, NEW explicit2,
           ~IsDenied(ScopeFor(shared, policy, c, p, read, write, explicit)),
           ~IsDenied(ScopeFor(shared, policy, d, q, read2, write2, explicit2))
    PROVE  LET s == ScopeFor(shared, policy, c, p, read, write, explicit).value
               t == ScopeFor(shared, policy, d, q, read2, write2, explicit2).value
           IN  /\ OperationId(s, e) # OperationId(t, f)
               /\ Bank(s) = Bank(t) =>
                    /\ s.shared # Nothing /\ s.shared = t.shared /\ s.class = t.class
                    /\ s.private => ~t.cloud
<1> DEFINE g == GrantOf(policy, c, p)
           h == GrantOf(policy, d, q)
           s == ScopeOf(shared, g, c, p)
           t == ScopeOf(shared, h, d, q)
<1>1. /\ ScopeFor(shared, policy, c, p, read, write, explicit).value = s
      /\ ScopeFor(shared, policy, d, q, read2, write2, explicit2).value = t
  BY ScopeIsGranted, GrantedValue
<1>2. /\ s.client = c /\ s.shared = g.scope /\ s.class = g.class /\ s.project = p
      /\ t.client = d /\ t.shared = h.scope /\ t.class = h.class /\ t.project = q
      /\ s.private => ~(g.scope # Nothing /\ shared[g.scope].cloud)
      /\ t.cloud => (h.scope # Nothing => shared[h.scope].cloud)
  BY DEF ScopeOf, OpenTo
<1> HIDE DEF s, t
<1>3. ASSUME Bank(s) = Bank(t)
      PROVE  s.shared # Nothing /\ s.shared = t.shared /\ s.class = t.class
  <2>1. CASE s.shared = Nothing
    <3>1. CASE t.shared = Nothing
      BY <1>2, <1>3, <2>1, <3>1 DEF Bank
    <3>2. CASE t.shared # Nothing
      BY <1>3, <2>1, <3>2 DEF Bank
    <3> QED
      BY <3>1, <3>2
  <2>2. CASE s.shared # Nothing
    <3>1. t.shared # Nothing
      BY <1>3, <2>2 DEF Bank
    <3> QED
      BY <1>3, <2>2, <3>1 DEF Bank
  <2> QED
    BY <2>1, <2>2
<1>4. OperationId(s, e) # OperationId(t, f)
  <2>1. CASE Bank(s) = Bank(t)
    BY <1>2, <1>3, <2>1 DEF OperationId
  <2>2. CASE Bank(s) # Bank(t)
    BY <2>2 DEF OperationId
  <2> QED
    BY <2>1, <2>2
<1>5. Bank(s) = Bank(t) /\ s.private => ~t.cloud
  BY <1>2, <1>3
<1> QED
  BY <1>1, <1>3, <1>4, <1>5

\* Whatever a client, its grants and its request are: what a chat gets from a bank goes no
\* further than the bank does (class, cloud), what it leaves there is not above the bank's
\* class, and a request never loses its own class or its wish to stay at home (memory.prepare).
THEOREM WordsStay ==
    ASSUME NEW shared, NEW policy, NEW client, NEW retention \in BOOLEAN, NEW r,
           r.class \in Int, policy[client].class \in Int, policy[client].autoRetain \in BOOLEAN,
           \A p \in DOMAIN policy[client].projects : policy[client].projects[p].class \in Int,
           r.asks # Nothing => r.asks.recall \in BOOLEAN /\ r.asks.retain \in BOOLEAN,
           ~IsDenied(PrepareChat(shared, policy, client, retention, r))
    PROVE  LET v == PrepareChat(shared, policy, client, retention, r).value
               spec == Asked(policy[client], r)
               g == GrantOf(policy, client, spec.project)
               bank == Bank(ScopeOf(shared, g, client, spec.project))
           IN  /\ v.class >= r.class
               /\ r.execution = "local" => v.execution = "local"
               /\ v.recalls # Nothing => /\ v.recalls = bank /\ g.read /\ v.class >= g.class
                                         /\ OpenTo(shared, g) \/ v.execution = "local"
               /\ v.retains # Nothing => /\ v.retains = bank /\ g.write /\ retention
                                         /\ v.class <= g.class /\ policy[client].class <= g.class
<1> DEFINE c == policy[client]
           spec == Asked(c, r)
           g == GrantOf(policy, client, spec.project)
           scope == ScopeFor(shared, policy, client, spec.project, spec.recall, spec.retain, FALSE)
           s == scope.value
           class == HigherOf(s.class, HigherOf(r.class, c.class))
           a == PrepareChat(shared, policy, client, retention, r)
           whole == [class |-> class, execution |-> IF s.cloud THEN r.execution ELSE "local",
                     recalls |-> IF spec.recall THEN Bank(s) ELSE Nothing,
                     retains |-> IF spec.retain THEN Bank(s) ELSE Nothing]
           same == [class |-> r.class, execution |-> r.execution, recalls |-> Nothing, retains |-> Nothing]
           passes == /\ spec # Nothing /\ ~IsDenied(scope)
                     /\ ~(spec.retain /\ (~retention \/ class > s.class))
                     /\ ~(~s.cloud /\ r.execution = "cloud")
<1>1. a = Denied \/ a = Granted(same) \/ (a = Granted(whole) /\ passes)
  BY DEF PrepareChat, Untouched
<1>2. IsDenied(Denied)
  BY DEF IsDenied, Denied
<1>3. CASE a = Granted(same)
  <2>1. a.value = same
    BY <1>3, GrantedValue
  <2> QED
    BY <2>1
<1>4. CASE a = Granted(whole) /\ passes
  <2>1. a.value = whole
    BY <1>4, GrantedValue
  <2>2. spec.recall \in BOOLEAN /\ spec.retain \in BOOLEAN
    BY <1>4 DEF Asked
  <2>3. /\ s = ScopeOf(shared, g, client, spec.project)
        /\ spec.project \in DOMAIN c.projects
        /\ spec.recall => g.read
        /\ spec.retain => g.write /\ ~(c.class > g.class)
    <3>1. ~IsDenied(scope)
      BY <1>4
    <3> HIDE DEF spec
    <3>2. /\ scope = Granted(ScopeOf(shared, g, client, spec.project))
          /\ spec.project \in DOMAIN c.projects
          /\ spec.recall => g.read
          /\ spec.retain => g.write /\ ~(c.class > g.class)
      <4>1. ASSUME NEW read, NEW write, NEW explicit,
                   ~IsDenied(ScopeFor(shared, policy, client, spec.project, read, write, explicit))
            PROVE  /\ ScopeFor(shared, policy, client, spec.project, read, write, explicit)
                        = Granted(ScopeOf(shared, g, client, spec.project))
                   /\ spec.project \in DOMAIN c.projects
                   /\ read => g.read
                   /\ write => g.write /\ ~(c.class > g.class)
        BY <4>1, ScopeIsGranted
      <4> QED
        BY <3>1, <4>1, Zenon
    <3> HIDE DEF scope, g
    <3> QED
      BY <3>2, GrantedValue
  <2>4. g.class \in Int /\ s.class = g.class /\ s.cloud = OpenTo(shared, g)
    <3> HIDE DEF s, spec
    <3>1. g.class \in Int
      BY <2>3 DEF GrantOf
    <3>2. s.class = g.class /\ s.cloud = OpenTo(shared, g)
      BY <2>3 DEF ScopeOf
    <3> QED
      BY <3>1, <3>2
  <2>5. class \in Int /\ class >= r.class /\ class >= g.class
    <3>1. HigherOf(r.class, c.class) \in Int /\ HigherOf(r.class, c.class) >= r.class
      BY HigherIsAbove
    <3>2. s.class \in Int
      BY <2>4
    <3> HIDE DEF s, g
    <3>3. class \in Int /\ class >= s.class /\ class >= HigherOf(r.class, c.class)
      BY <3>1, <3>2, HigherIsAbove
    <3> QED
      BY <2>4, <3>1, <3>3
  <2>6. OpenTo(shared, g) \/ whole.execution = "local"
    BY <2>4
  <2>7. r.execution = "local" => whole.execution = "local"
    OBVIOUS
  <2>8. whole.recalls # Nothing => spec.recall /\ whole.recalls = Bank(s)
    OBVIOUS
  <2>9. whole.retains # Nothing => spec.retain /\ whole.retains = Bank(s)
    OBVIOUS
  <2>10. spec.retain => retention /\ ~(class > s.class)
    BY <1>4
  <2> HIDE DEF s, g, class, spec
  <2>11. spec.retain => retention /\ class <= g.class /\ c.class <= g.class
    BY <2>3, <2>4, <2>5, <2>10
  <2>12. whole.class = class
    OBVIOUS
  <2> HIDE DEF whole
  <2>13. /\ a.value.class >= r.class
         /\ r.execution = "local" => a.value.execution = "local"
    BY <2>1, <2>5, <2>7, <2>12
  <2>14. a.value.recalls # Nothing =>
            /\ a.value.recalls = Bank(s) /\ g.read /\ a.value.class >= g.class
            /\ OpenTo(shared, g) \/ a.value.execution = "local"
    BY <2>1, <2>3, <2>5, <2>6, <2>8, <2>12
  <2>15. a.value.retains # Nothing =>
            /\ a.value.retains = Bank(s) /\ g.write /\ retention
            /\ a.value.class <= g.class /\ c.class <= g.class
    BY <2>1, <2>3, <2>9, <2>11, <2>12
  <2> QED
    BY <2>3, <2>13, <2>14, <2>15 DEF spec, g
<1> QED
  BY <1>1, <1>2, <1>3, <1>4

Whatever == {"status", "cancel", "delete", "retry"}
Curates(shared, policy, client, bank) ==
    \E p \in DOMAIN policy[client].projects :
        LET g == GrantOf(policy, client, p)
        IN  /\ Managed(policy[client], TRUE)
            /\ g.scope # Nothing /\ g.scope \in DOMAIN shared /\ shared[g.scope].class = g.class
            /\ g.read /\ g.delete /\ bank = <<"shared", g.scope, g.class>>

LEMMA CuratorsOfABank ==
    ASSUME NEW shared, NEW policy, NEW client, NEW s \in CuratorScopes(shared, policy, client)
    PROVE  Curates(shared, policy, client, Bank(s)) /\ s.read /\ s.delete
<1> DEFINE scope(p) == ScopeFor(shared, policy, client, p, TRUE, FALSE, TRUE)
<1>1. PICK p \in DOMAIN policy[client].projects :
          /\ LET g == GrantOf(policy, client, p) IN g.scope # Nothing /\ g.read /\ g.delete
          /\ ~IsDenied(scope(p)) /\ s = scope(p).value
  BY DEF CuratorScopes, GrantOf
<1> DEFINE g == GrantOf(policy, client, p)
<1>2. /\ scope(p) = Granted(ScopeOf(shared, g, client, p))
      /\ Managed(policy[client], TRUE)
      /\ g.scope # Nothing => g.scope \in DOMAIN shared /\ shared[g.scope].class = g.class
  <2>1. ASSUME NEW read, NEW write, NEW explicit,
               ~IsDenied(ScopeFor(shared, policy, client, p, read, write, explicit))
        PROVE  /\ ScopeFor(shared, policy, client, p, read, write, explicit)
                    = Granted(ScopeOf(shared, g, client, p))
               /\ Managed(policy[client], explicit)
               /\ g.scope # Nothing => g.scope \in DOMAIN shared /\ shared[g.scope].class = g.class
    BY <2>1, ScopeIsGranted
  <2> QED
    BY <1>1, <2>1, Zenon
<1>3. s = ScopeOf(shared, g, client, p)
  BY <1>1, <1>2, GrantedValue
<1>4. s.shared = g.scope /\ s.class = g.class /\ s.read = g.read /\ s.delete = g.delete
  BY <1>3 DEF ScopeOf
<1>5. Bank(s) = <<"shared", g.scope, g.class>>
  BY <1>1, <1>4 DEF Bank
<1> QED
  BY <1>1, <1>2, <1>4, <1>5 DEF Curates

\* An operation of another client answers as one that does not exist, however it is asked for,
\* but to a curator of its bank, who may see and delete it over REST (operation_control).
THEOREM OthersAreHidden ==
    ASSUME NEW shared, NEW policy, NEW client, NEW kept, NEW via, NEW what \in Whatever,
           NEW retention, kept # Nothing, kept.owner # client
    PROVE  LET a == Control(shared, policy, client, kept, via, what, retention)
           IN  \/ a = Control(shared, policy, client, Nothing, via, what, retention)
               \/ /\ a = Granted(what) /\ via = "rest" /\ what \in {"status", "delete"}
                  /\ Curates(shared, policy, client, kept.bank)
<1> DEFINE a == Control(shared, policy, client, kept, via, what, retention)
           fits == {s \in CuratorScopes(shared, policy, client) : kept # Nothing /\ Bank(s) = kept.bank}
           one == CHOOSE s \in fits : TRUE
           target == CurationTarget(shared, policy, client, kept)
           asks == via = "rest" /\ what \in {"status", "delete"}
<1>1. IsDenied(NotFound)
  BY DEF IsDenied, NotFound
<1>2. Control(shared, policy, client, Nothing, via, what, retention) = NotFound
  <2>1. CurationTarget(shared, policy, client, Nothing) = NotFound
    BY DEF CurationTarget
  <2> QED
    BY <1>1, <2>1 DEF Control
<1>3. CASE ~asks
  BY <1>1, <1>2, <1>3 DEF Control
<1>4. CASE asks /\ fits = {}
  <2>1. target = NotFound
    BY <1>4 DEF CurationTarget
  <2> QED
    BY <1>1, <1>2, <1>4, <2>1 DEF Control
<1>5. CASE asks /\ fits # {}
  <2>1. one \in fits
    BY <1>5
  <2>2. Curates(shared, policy, client, kept.bank) /\ one.read /\ one.delete
    BY <2>1, CuratorsOfABank
  <2>3. target = Granted(one)
    BY <1>5 DEF CurationTarget
  <2> HIDE DEF fits, one
  <2>4. ~IsDenied(target) /\ target.value = one
    BY <2>3, GrantedValue
  <2>5. Allowed(shared, policy, client, kept, one, what, retention)
    BY <1>5, <2>2 DEF Allowed
  <2>6. a = Granted(what)
    BY <1>5, <2>4, <2>5 DEF Control
  <2> QED
    BY <1>5, <2>2, <2>6
<1> QED
  BY <1>3, <1>4, <1>5

\* Who asks for an operation of his own still needs the grant of the moment: it must lead to
\* the bank of the operation, and let him do what he asks for (operation_control).
THEOREM OwnNeedTheGrant ==
    ASSUME NEW shared, NEW policy, NEW client, NEW kept, NEW via, NEW what \in Whatever,
           NEW retention, kept # Nothing, kept.owner = client, kept.deleting \in BOOLEAN,
           ~IsDenied(Control(shared, policy, client, kept, via, what, retention))
    PROVE  LET g == GrantOf(policy, client, kept.project)
           IN  /\ kept.project \in DOMAIN policy[client].projects
               /\ kept.bank = Bank(ScopeOf(shared, g, client, kept.project))
               /\ what = "cancel" => g.write
               /\ what = "delete" \/ (what = "retry" /\ kept.deleting) => g.delete
               /\ what = "retry" /\ ~kept.deleting =>
                      g.write /\ retention /\ ~(policy[client].class > g.class)
               /\ what = "status" => g.read \/ g.write \/ g.delete
<1> DEFINE g == GrantOf(policy, client, kept.project)
           s == ScopeOf(shared, g, client, kept.project)
           scope == ScopeFor(shared, policy, client, kept.project, FALSE, FALSE, TRUE)
           rewrite == ScopeFor(shared, policy, client, kept.project, FALSE, TRUE, TRUE)
           own == OwnScope(shared, policy, client, kept)
<1>1. ASSUME NEW read, NEW write, NEW explicit,
             ~IsDenied(ScopeFor(shared, policy, client, kept.project, read, write, explicit))
      PROVE  /\ ScopeFor(shared, policy, client, kept.project, read, write, explicit) = Granted(s)
             /\ kept.project \in DOMAIN policy[client].projects
             /\ write => g.write /\ ~(policy[client].class > g.class)
  BY <1>1, ScopeIsGranted
<1>2. IsDenied(NotFound) /\ IsDenied(Denied)
  BY DEF IsDenied, NotFound, Denied
<1>3. ~IsDenied(own) /\ Allowed(shared, policy, client, kept, own.value, what, retention)
  BY <1>2 DEF Control
<1>4. own = scope /\ Bank(scope.value) = kept.bank /\ ~IsDenied(scope)
  BY <1>2, <1>3 DEF OwnScope
<1>5. scope = Granted(s) /\ kept.project \in DOMAIN policy[client].projects
  BY <1>1, <1>4, Zenon
<1>6. own.value = s /\ kept.bank = Bank(s)
  BY <1>4, <1>5, GrantedValue
<1>7. s.read = g.read /\ s.write = g.write /\ s.delete = g.delete
  BY DEF ScopeOf
<1> HIDE DEF s, own
<1>8. MayRewrite(shared, policy, client, kept, s, retention)
        => g.write /\ retention /\ ~(policy[client].class > g.class)
  <2>1. SUFFICES ASSUME rewrite = Granted(s), retention
                 PROVE  g.write /\ ~(policy[client].class > g.class)
    BY DEF MayRewrite
  <2>2. ~IsDenied(rewrite)
    BY <2>1, GrantedValue
  <2> QED
    BY <1>1, <2>2, Zenon
<1>9. Allowed(shared, policy, client, kept, s, what, retention)
  BY <1>3, <1>6
<1> QED
  BY <1>5, <1>6, <1>7, <1>8, <1>9 DEF Allowed, Whatever, s
=============================================================================
