------------------------------- MODULE Outbox -------------------------------
(* One job of the memory outbox (memory_outbox.py, reliability_store.py): the
   workers of several routers hand it to Hindsight, ask whether the extraction
   completed, resubmit it under a new upstream id, or delete its document, while
   its owner cancels, deletes and retries it.

   Every method of the store is one transaction, every call of Hindsight one
   step.  Jobs meet only in the capacity check, which may refuse a put or a
   retry: nothing happens then.  Delays are "may be due", a lease is live until
   it expires, and policy (grants, bank binding) may change before any call. *)
EXTENDS Naturals, FiniteSets

CONSTANTS
    Workers,       \* consume tasks of all routers
    None,
    MaxSends,      \* outbox_attempts
    MaxResubmits,  \* upstream_attempts
    MaxRounds,     \* outbox_retry: three rounds
    MaxFaults      \* crashes, leases that a worker outlives, ids forgotten (bound)

ASSUME NoneAssumption == None \notin Workers
ASSUME LimitAssumption == /\ MaxSends \in Nat /\ MaxResubmits \in Nat
                          /\ MaxRounds \in Nat /\ MaxFaults \in Nat

VARIABLES
    row,               \* the job's row in memory_outbox
    worker,            \* each worker's claimed row (as read) and its outcome
    op, sent, doc,     \* Hindsight: operations, sends that may arrive, the document
    faults

hindsight == <<op, sent, doc>>
vars == <<row, worker, hindsight, faults>>

\* The upstream ids the job can have: every round may resubmit it so often.
Ids == 0..(MaxRounds + 1) * MaxResubmits
Terminal == {"completed", "dead", "revoked", "cancelled", "deleted"}
Open == {"pending", "processing", "accepted", "delete_pending"}
\* Mutant: what Hindsight is still working on may be deleted.
OverOrRunning == {"completed", "failed", "running"}
\* A deletion waits for one of these: "no write can follow".
Over == {"completed", "failed"}
\* Mutant: an extraction that has not ended is sent again.
LostOrRunning == {"failed", "cancelled", "running"}
\* verify: these are sent again under the next id.
Lost == {"failed", "cancelled"}
Outcomes == {"none", "accepted", "completed", "dead", "revoked", "retry", "resubmit", "deleted"}

\* tried: attempts > 0.  sends: attempts - retry_base.  live: lease_until is in
\* the future.  payload and scope: not NULL, and not reduced by cleanup.
RowType == [state : Open \cup Terminal \cup {"none"}, lease : Workers \cup {None},
            live : BOOLEAN, tried : BOOLEAN, sends : Nat, up : Ids, upBase : Ids,
            rounds : 0..MaxRounds, del : BOOLEAN, payload : BOOLEAN, scope : BOOLEAN]
WorkerType == [st : {"idle", "claimed", "called", "ended", "done"},
               kind : {"none", "retain", "delete", "verify"}, id : Ids,
               sends : Nat, resubmits : Nat, outcome : Outcomes]

TypeOK ==
    /\ row \in RowType
    /\ worker \in [Workers -> WorkerType]
    /\ op \in [Ids -> {"unknown", "running", "completed", "failed", "cancelled"}]
    /\ sent \subseteq Ids /\ doc \in BOOLEAN
    /\ faults \in 0..MaxFaults

NoRow == [state |-> "none", lease |-> None, live |-> FALSE, tried |-> FALSE, sends |-> 0,
          up |-> 0, upBase |-> 0, rounds |-> 0, del |-> FALSE, payload |-> FALSE,
          scope |-> FALSE]
Idle == [st |-> "idle", kind |-> "none", id |-> 0, sends |-> 0, resubmits |-> 0,
         outcome |-> "none"]

Init ==
    /\ row = NoRow
    /\ worker = [w \in Workers |-> Idle]
    /\ op = [i \in Ids |-> "unknown"] /\ sent = {} /\ doc = FALSE
    /\ faults = 0

----------------------------------------------------------------------------
(* The owner's requests *)

OwnerOnly == UNCHANGED <<worker, hindsight, faults>>

Put == /\ row.state = "none"
       /\ row' = [NoRow EXCEPT !.state = "pending", !.payload = TRUE, !.scope = TRUE]
       /\ OwnerOnly

MayCancel == /\ row.state \in {"pending", "dead", "revoked", "cancelled"}
             /\ row.tried => row.state = "cancelled"
\* outbox_cancel: only what has never been claimed for a send.
Cancel ==
    /\ MayCancel
    /\ row' = [row EXCEPT !.state = "cancelled", !.payload = FALSE]
    /\ OwnerOnly

\* outbox_delete: at once if nothing was ever sent, else by a worker.  The lease
\* of a verification under way stays in the row.
Delete ==
    /\ row.state \in {"pending", "accepted"} \cup (Terminal \ {"deleted"})
    /\ row' = IF ~row.tried \/ row.state = "cancelled"
              THEN [row EXCEPT !.state = "deleted", !.payload = FALSE]
              ELSE [row EXCEPT !.state = "delete_pending", !.scope = TRUE,
                               !.sends = 0, !.del = TRUE]
    /\ OwnerOnly

MayRetry == row.state = "dead" /\ row.rounds < MaxRounds /\ (row.payload \/ row.del)
\* outbox_retry of a dead letter.
Retry ==
    /\ MayRetry
    /\ row' = [row EXCEPT !.state = IF row.del THEN "delete_pending" ELSE "pending",
                          !.scope = TRUE, !.sends = 0, !.upBase = row.up,
                          !.rounds = @ + 1, !.lease = None, !.live = FALSE]
    /\ OwnerOnly

\* cleanup after outbox_days.
Cleanup == /\ row.state \in Terminal /\ row.payload
           /\ row' = [row EXCEPT !.payload = FALSE, !.scope = FALSE]
           /\ OwnerOnly

----------------------------------------------------------------------------
(* A worker: memory_outbox.step *)

WorkerIs(w, job) == worker' = [worker EXCEPT ![w] = job]
\* What the finish does not use is forgotten.
Done(w, outcome) ==
    WorkerIs(w, [worker[w] EXCEPT !.st = "done", !.outcome = outcome, !.resubmits = 0,
                                  !.sends = IF outcome = "retry" THEN @ ELSE 0])

Lapsed == row.state = "processing" /\ ~row.live
Exhausted == Lapsed /\ row.sends >= MaxSends

\* outbox_claim makes a send dead whose last lease has expired.
Bury == /\ Exhausted
        /\ \E w \in Workers : worker[w].st = "idle"
        /\ row' = [row EXCEPT !.state = "dead"]
        /\ OwnerOnly

\* Mutant: an expired lease of a verification is never claimed again.
DueUnleased == \/ row.state \in {"pending", "delete_pending"} \/ Lapsed
               \/ row.state = "accepted" /\ row.lease = None
Due == \/ row.state \in {"pending", "delete_pending"} \/ Lapsed
       \/ row.state = "accepted" /\ ~row.live

\* outbox_claim: the row as the worker works with it from now on.
Claim(w) ==
    LET verifies == row.state = "accepted"
        sends == IF verifies THEN row.sends ELSE row.sends + 1
    IN  /\ worker[w].st = "idle" /\ Due /\ ~Exhausted
        /\ row' = [row EXCEPT !.state = IF verifies THEN "accepted" ELSE "processing",
                              !.tried = @ \/ ~verifies, !.sends = sends,
                              !.lease = w, !.live = TRUE]
        /\ WorkerIs(w, [st |-> "claimed", outcome |-> "none", id |-> row.up,
                        kind |-> IF verifies THEN "verify" ELSE IF row.del THEN "delete" ELSE "retain",
                        sends |-> IF verifies THEN 0 ELSE sends,
                        resubmits |-> IF verifies THEN row.up - row.upBase ELSE 0])
        /\ UNCHANGED <<hindsight, faults>>

At(w, kind, st) == worker[w].kind = kind /\ worker[w].st = st

\* Grants, retention or the bank binding have changed, or Hindsight refuses (403).
Revoked(w) ==
    /\ worker[w].st \in {"claimed", "called", "ended"}
    /\ Done(w, "revoked")
    /\ UNCHANGED <<row, hindsight, faults>>

\* deliver: the send goes out ...
Send(w) ==
    /\ At(w, "retain", "claimed")
    /\ WorkerIs(w, [worker[w] EXCEPT !.st = "called"])
    /\ sent' = sent \cup {worker[w].id}
    /\ UNCHANGED <<row, op, doc, faults>>
\* ... and is answered.
Accepted(w) ==
    /\ At(w, "retain", "called") /\ op[worker[w].id] # "unknown"
    /\ Done(w, "accepted")
    /\ UNCHANGED <<row, hindsight, faults>>

\* A call fails or times out, whether Hindsight has carried it out or not.
CallFails(w) ==
    /\ worker[w].st \in {"claimed", "called", "ended"}
    /\ Done(w, IF worker[w].kind = "verify" THEN "accepted" ELSE "retry")
    /\ UNCHANGED <<row, hindsight, faults>>

\* deliver of a deletion: only when no write can follow.
AskDelete(w) ==
    /\ At(w, "delete", "claimed")
    /\ IF op[worker[w].id] \in Over THEN WorkerIs(w, [worker[w] EXCEPT !.st = "ended"])
       ELSE Done(w, "retry")
    /\ UNCHANGED <<row, hindsight, faults>>
\* The answer may be lost.
DeleteDocument(w) ==
    /\ worker[w].st = "ended"
    /\ doc' = FALSE
    /\ Done(w, "deleted") \/ Done(w, "retry")
    /\ UNCHANGED <<row, op, sent, faults>>

Resubmitted(job) == job.resubmits >= MaxResubmits

\* verify.  A running extraction is waited for until verify_timeout_s.
Verify(w) ==
    LET was == op[worker[w].id]
    IN  /\ At(w, "verify", "claimed")
        /\ \/ was = "completed" /\ Done(w, "completed")
           \/ was \in Lost /\ Done(w, IF Resubmitted(worker[w]) THEN "dead" ELSE "resubmit")
           \/ was = "unknown" /\ Done(w, "dead")
           \/ was = "running" /\ (Done(w, "accepted") \/ Done(w, "dead"))
        /\ UNCHANGED <<row, hindsight, faults>>

\* Mutant: any lease will do.
HasSomeLease(w) == row.state \in {"processing", "accepted"}
HasLease(w) == row.lease = w /\ row.live /\ row.state \in {"processing", "accepted"}

\* The row after outbox_finish of outcome `o` for the job `j`.
Finished(j, o) ==
    LET closed == [row EXCEPT !.lease = None, !.live = FALSE]
    IN  CASE o = "resubmit" -> [closed EXCEPT !.state = "pending", !.up = j.id + 1, !.sends = 0]
          [] o = "retry" -> [closed EXCEPT !.state = IF j.sends >= MaxSends THEN "dead"
                                                     ELSE IF j.kind = "delete" THEN "delete_pending"
                                                     ELSE "pending"]
          [] o \in {"deleted", "revoked"} -> [closed EXCEPT !.state = o, !.payload = FALSE]
          [] OTHER -> [closed EXCEPT !.state = o]

\* outbox_finish, which does nothing when the lease is lost.
Finish(w) ==
    /\ worker[w].st = "done"
    /\ row' = IF HasLease(w) THEN Finished(worker[w], worker[w].outcome) ELSE row
    /\ WorkerIs(w, Idle)
    /\ UNCHANGED <<hindsight, faults>>

----------------------------------------------------------------------------
(* What may go wrong *)

Fault == faults < MaxFaults /\ faults' = faults + 1

\* The router ends in the middle of a job, or the database does not take the
\* outcome.  A send that is out stays out.
Crash(w) ==
    /\ worker[w].st # "idle" /\ Fault
    /\ WorkerIs(w, Idle)
    /\ UNCHANGED <<row, hindsight>>

\* The lease of a crashed worker expires, or a call takes longer than the lease.
LeaseExpires ==
    /\ row.live
    /\ IF worker[row.lease].st = "idle" THEN UNCHANGED faults ELSE Fault
    /\ row' = [row EXCEPT !.live = FALSE]
    /\ UNCHANGED <<worker, hindsight>>

----------------------------------------------------------------------------
(* Hindsight.  A known operation id is answered with its state and never starts
   again; all extractions of the job write one document. *)

Arrive(i) == /\ i \in sent /\ op[i] = "unknown"
             /\ op' = [op EXCEPT ![i] = "running"]
             /\ UNCHANGED <<row, worker, sent, doc, faults>>

ExtractionEnds(i) ==
    /\ op[i] = "running"
    /\ \/ op' = [op EXCEPT ![i] = "completed"] /\ doc' = TRUE
       \/ /\ \E s \in {"failed", "cancelled"} : op' = [op EXCEPT ![i] = s]
          /\ doc' \in {doc, TRUE}
    /\ UNCHANGED <<row, worker, sent, faults>>

\* It no longer knows an old operation; no send of that id is on its way.
Forget(i) ==
    /\ op[i] \notin {"unknown", "running"} /\ Fault
    /\ \A w \in Workers : ~(worker[w].st \in {"claimed", "called"} /\ worker[w].id = i)
    /\ op' = [op EXCEPT ![i] = "unknown"] /\ sent' = sent \ {i}
    /\ UNCHANGED <<row, worker, doc>>

----------------------------------------------------------------------------
Owner == Put \/ Cancel \/ Delete \/ Retry \/ Cleanup
WorkerStep(w) == \/ Claim(w) \/ Send(w) \/ Accepted(w) \/ CallFails(w) \/ AskDelete(w)
                 \/ DeleteDocument(w) \/ Verify(w) \/ Finish(w)
Hindsight == \E i \in Ids : Arrive(i) \/ ExtractionEnds(i) \/ Forget(i)
Settled == row.state \in Terminal /\ UNCHANGED vars

Next == \/ Owner \/ Bury \/ LeaseExpires \/ Hindsight \/ Settled
        \/ \E w \in Workers : WorkerStep(w) \/ Revoked(w) \/ Crash(w)

Spec == Init /\ [][Next]_vars

\* The workers run and their calls end, an expired lease is past for good, an
\* extraction ends, and Hindsight answers a verification again and again.
Fairness ==
    /\ WF_vars(Bury) /\ WF_vars(LeaseExpires)
    /\ \A i \in Ids : WF_vars(ExtractionEnds(i))
    /\ \A w \in Workers : WF_vars(WorkerStep(w)) /\ SF_vars(Verify(w))
FairSpec == Spec /\ Fairness

----------------------------------------------------------------------------
(* Correctness *)

\* What is deleted stays deleted: no late send, no slow worker, no resubmission
\* brings the document back or is still writing it (deliver, "delete only when no
\* write can follow").
DeletedIsGone == row.state = "deleted" => ~doc /\ \A i \in Ids : op[i] # "running"

\* A job is only called completed when its document is in Hindsight, and until
\* its deletion nobody's late deletion removes it.
CompletedIsStored == row.state = "completed" => doc

\* Cancelling is granted only while nothing can have reached Hindsight, and no
\* worker sends it afterwards (outbox_cancel).
CancelledWasNeverSent ==
    row.state = "cancelled" => sent = {} /\ \A w \in Workers : worker[w].st = "idle"

\* A job that a worker may claim is whole: step would fail on a purged scope, and
\* deliver on a missing payload (cleanup against retry, delete and late results).
OpenJobsAreWhole == row.state \in Open => row.scope /\ (row.payload \/ row.del)

\* Two extractions never write the document at the same time, although workers
\* overlap and failed extractions are resubmitted under a new id.
OneExtraction == Cardinality({i \in Ids : op[i] = "running"}) <= 1

\* Every admitted job settles: crashes, expired leases, failed calls and lost
\* sends do not leave it open for ever.
EveryJobSettles == row.state \in Open ~> row.state \in Terminal
=============================================================================
