----------------------------- MODULE ManagedTurns -----------------------------
(* Turns of one skirnir-managed session (managed.py, managed_store.py,
   context_manager.project): the requests of several routers claim a turn of the
   session, read its context, compact it, ask a model and store the answer,
   while clients retry with the same event id, leases expire and the owner
   archives or deletes the session.

   Every method of the store is one transaction on the locked session row; its
   effect and its reply are independent: a reply may be lost, and the caller
   then sees "unavailable".  Every check that can only refuse (policy, limits,
   tool results, the flag `lost` that the heartbeat sets) is a refusal at any
   time.  Of the rows that are pinned for their role alone only tool results are
   told apart; which of them are longer than cfg.tool_result_bytes is open. *)
EXTENDS Naturals, Sequences, FiniteSets

CONSTANTS
    Requests,        \* each claims at most once, so it stands for its lease
    Events,          \* event ids of turns
    None,
    InputRows,       \* messages of an input
    ResultRows,      \* tool results that it starts with, if it answers calls
    ReduceResults,   \* cfg.reduce_tool_results
    TailRows,        \* cfg.tail_messages
    AutoCheckpoints, \* cfg.auto_checkpoints
    MaxCheckpoints   \* checkpoints that the client appends (bound)

ASSUME NoneAssumption == None \notin Requests \cup Events
ASSUME SizeAssumption == /\ InputRows \in Nat \ {0} /\ TailRows \in Nat \ {0}
                         /\ ResultRows \in 0..InputRows /\ ReduceResults \in BOOLEAN
                         /\ AutoCheckpoints \in BOOLEAN /\ MaxCheckpoints \in Nat

VARIABLES
    status,       \* of the session
    log,          \* table events: the index of a row is its seq
    turn,         \* table turns; live: pending, and lease_until in the future
    compaction,   \* the latest version: through_seq, the pinned rows, those cut short
    req           \* each request: where it stands, what it has read, its result

store == <<status, log, turn, compaction>>
vars == <<store, req>>

Row(kind, e) == [kind |-> kind, event |-> e]
NoTurn == [state |-> "none", lease |-> None, live |-> FALSE, end |-> 0]
Nothing == [through |-> 0, pins |-> {}, short |-> {}]
Compactions == [through : Nat, pins : SUBSET Nat, short : SUBSET Nat]
Fresh == [st |-> "idle", event |-> None, upto |-> 0, known |-> Nothing,
          protected |-> {}, result |-> "none"]
Failed == [Fresh EXCEPT !.st = "over", !.result = "error"]

\* With the unique index one_pending_turn, which no transaction runs into.
TypeOK ==
    /\ status \in {"active", "archived", "deleted"}
    /\ log \in Seq([kind : {"input", "result", "answer", "checkpoint"}, event : Events \cup {None}])
    /\ turn \in [Events -> [state : {"none", "pending", "failed", "completed"},
                            lease : Requests \cup {None}, live : BOOLEAN, end : Nat]]
    /\ \A e \in Events : turn[e].live => turn[e].state = "pending"
    /\ \A e, f \in Events : turn[e].state = "pending" /\ turn[f].state = "pending" => e = f
    /\ compaction \in Compactions
    /\ req \in [Requests -> [st : {"idle", "claimed", "ready", "asked", "closing", "over"},
                             event : Events \cup {None}, upto : Nat,
                             known : Compactions,
                             protected : SUBSET Nat,
                             result : {"none", "success", "error"}]]

Init == /\ status = "active" /\ log = <<>>
        /\ turn = [e \in Events |-> NoTurn]
        /\ compaction = Nothing
        /\ req = [r \in Requests |-> Fresh]

\* Sequence numbers of the messages.
Messages == {s \in 1..Len(log) : log[s].kind # "checkpoint"}
\* input_start_seq..input_end_seq.
InputOf(e) == {s \in 1..turn[e].end : s + InputRows > turn[e].end}
Busy == \E e \in Events : turn[e].live

----------------------------------------------------------------------------
(* Claiming a turn: managed.begin *)

Newer(e) == \E s \in Messages : s > turn[e].end
\* Mutant: an old turn is retried after newer messages.
MayRetryLate(e) == turn[e].state # "completed"
MayRetry(e) == turn[e].state # "completed" /\ ~Newer(e)

Ended(e, state) == [turn[e] EXCEPT !.state = state, !.live = FALSE]
\* Turns whose lease has expired are failed in the same transaction.
Swept == [e \in Events |-> IF turn[e].state = "pending" THEN Ended(e, "failed") ELSE turn[e]]

Input(e, results) == [k \in 1..InputRows |-> Row(IF k <= results THEN "result" ELSE "input", e)]
\* tool_delta: results answer the calls of the last message.
MayCall == \E s \in Messages : log[s].kind = "answer" /\ \A t \in Messages : t <= s

\* claim: a new turn appends its input, a retry does not.
Claim(r, e) ==
    LET isNew == turn[e].state = "none"
    IN  /\ req[r].st = "idle" /\ status = "active" /\ ~Busy
        /\ isNew \/ MayRetry(e)
        /\ \E n \in {0} \cup IF MayCall THEN {ResultRows} ELSE {} :
              log' = IF isNew THEN log \o Input(e, n) ELSE log
        /\ turn' = [Swept EXCEPT ![e] = [state |-> "pending", lease |-> r, live |-> TRUE,
                                         end |-> IF isNew THEN Len(log') ELSE @.end]]
        /\ \/ req' = [req EXCEPT ![r] = [Fresh EXCEPT !.st = "claimed", !.event = e]]
           \/ req' = [req EXCEPT ![r] = Failed]
        /\ UNCHANGED <<status, compaction>>

\* The request is refused, or the store is unavailable: no trace.
Refuse(r) ==
    /\ req[r].st = "idle"
    /\ req' = [req EXCEPT ![r] = Failed]
    /\ UNCHANGED store

\* Mutant: only the turn under way is protected.
UnresolvedPending == {e \in Events : turn[e].state = "pending"}
\* _context: the turns whose input may not be summarised.
Unresolved == {e \in Events : turn[e].state \in {"pending", "failed"}}

\* context, which does not ask for the lease.
ReadContext(r) ==
    /\ req[r].st = "claimed" /\ status # "deleted"
    /\ req' = [req EXCEPT ![r].st = "ready", ![r].upto = Len(log), ![r].known = compaction,
                  ![r].protected = UNION {{s \in InputOf(e) : s > compaction.through} : e \in Unresolved}]
    /\ UNCHANGED store

----------------------------------------------------------------------------
(* Asking a model: Turn.target and the relay *)

\* Mutant: a lease counts although its turn was failed meanwhile.
HoldsFailed(r) == status = "active" /\ turn[req[r].event].lease = r
\* _lease
Holds(r) == status = "active" /\ turn[req[r].event].lease = r /\ turn[req[r].event].live

\* The rest of the request is close; what it has read is forgotten.
Closing(r, result) == req' = [req EXCEPT ![r] = [Fresh EXCEPT !.st = "closing", !.event = req[r].event,
                                                              !.result = result]]
\* The turn ends without an answer.
GivesUp(r) ==
    /\ req[r].st \in {"claimed", "ready", "asked"}
    /\ Closing(r, "error")
    /\ UNCHANGED store

\* project finds that the context fits.
Ask(r) == /\ req[r].st = "ready"
          /\ req' = [req EXCEPT ![r].st = "asked"]
          /\ UNCHANGED store

\* project: the tail starts with a row of an input, the rows before it are
\* summarised, or pinned if they are protected or tool results.  Pinned results of
\* before the tail are cut short, but those that were protected when the request
\* read them.  An older version is shortened even if there is no row before the
\* tail; pins alone, none of them cut short, are too large.
Rows(r) == {s \in Messages : req[r].known.through < s /\ s <= req[r].upto}
Before(r, s) == {t \in Rows(r) : t < s}
Results(rows) == {t \in rows : log[t].kind = "result"}
Pinned(r, s) == (Before(r, s) \cap req[r].protected) \cup Results(Before(r, s))
Reducible(r, s) ==
    IF ReduceResults
    THEN Results(req[r].known.pins \cup Pinned(r, s)) \ (req[r].protected \cup req[r].known.short)
    ELSE {}
MayStart(r, s, cut) ==
    /\ log[s].kind = "input"
    /\ Before(r, s) = {} \/ Cardinality(Rows(r) \ Before(r, s)) >= TailRows
    /\ req[r].known # Nothing \/ ~(Before(r, s) \subseteq Pinned(r, s)) \/ cut # {}
Projection(r, s, cut) ==
    LET ends == Before(r, s) \cup {req[r].known.through}
    IN  [through |-> CHOOSE t \in ends : \A u \in ends : u <= t,
         pins |-> req[r].known.pins \cup Pinned(r, s),
         short |-> req[r].known.short \cup cut]

\* compact, and the request is sent with the new version.
Compact(r) ==
    /\ req[r].st = "ready" /\ Holds(r)
    /\ \E s \in Rows(r) : \E cut \in SUBSET Reducible(r, s) :
          LET p == Projection(r, s, cut)
          IN  /\ MayStart(r, s, cut) /\ p.through >= compaction.through
              /\ compaction' = p
              /\ \/ req' = [req EXCEPT ![r].st = "asked", ![r].known = p]
                 \/ Closing(r, "error")
    /\ UNCHANGED <<status, log, turn>>

\* The attempt fails before its first byte: the next candidate.
NextCandidate(r) ==
    /\ req[r].st = "asked"
    /\ req' = [req EXCEPT ![r].st = "ready"]
    /\ UNCHANGED store

----------------------------------------------------------------------------
(* The answer: Turn.commit and Turn.close *)

\* Mutant: the client gets its answer although it was not stored.
CommitUnstored(r) ==
    /\ req[r].st = "asked"
    /\ Closing(r, "success")
    /\ UNCHANGED store

\* finish_turn; a checkpoint that says nothing new is left out.
FinishTurn(e) ==
    /\ \E checkpoint \in {<<>>} \cup IF AutoCheckpoints THEN {<<Row("checkpoint", e)>>} ELSE {} :
          log' = log \o <<Row("answer", e)>> \o checkpoint
    /\ turn' = [turn EXCEPT ![e] = Ended(e, "completed")]
\* The relay has a whole answer; its last chunk is held back until the reply of
\* finish_turn has come.
Commit(r) ==
    /\ req[r].st = "asked" /\ Holds(r)
    /\ FinishTurn(req[r].event)
    /\ \E result \in {"success", "error"} : Closing(r, result)
    /\ UNCHANGED <<status, compaction>>

\* The client has its result.
Over(r) == req' = [req EXCEPT ![r] = IF @.result = "success" THEN [req[r] EXCEPT !.st = "over"]
                                     ELSE Failed]
\* fail_turn if the answer is not known to be stored; it may be unavailable.
Close(r) ==
    LET e == req[r].event
    IN  /\ req[r].st = "closing"
        /\ \/ /\ req[r].result = "error" /\ turn[e].lease = r /\ turn[e].state = "pending"
              /\ turn' = [turn EXCEPT ![e] = Ended(e, "failed")]
           \/ UNCHANGED turn
        /\ Over(r)
        /\ UNCHANGED <<status, log, compaction>>

\* Its router ends, or the handler is cancelled before close is through.
Crash(r) ==
    /\ req[r].st \in {"claimed", "ready", "asked", "closing"}
    /\ Over(r)
    /\ UNCHANGED store

----------------------------------------------------------------------------
\* The heartbeat has stopped, or its renewals come too late.
LeaseExpires(e) ==
    /\ turn[e].live
    /\ turn' = [turn EXCEPT ![e].live = FALSE]
    /\ UNCHANGED <<status, log, compaction, req>>

\* The owner archives or reactivates the session, which waits for the turn.
Update == /\ status # "deleted" /\ ~Busy
          /\ status' \in {"active", "archived"}
          /\ UNCHANGED <<log, turn, compaction, req>>
Delete == /\ status' = "deleted" /\ log' = <<>>
          /\ turn' = [e \in Events |-> NoTurn] /\ compaction' = Nothing
          /\ UNCHANGED req

\* append: in a managed session only checkpoints.
AddCheckpoint ==
    /\ status = "active"
    /\ Cardinality({s \in 1..Len(log) : log[s].event = None}) < MaxCheckpoints
    /\ log' = Append(log, Row("checkpoint", None))
    /\ UNCHANGED <<status, turn, compaction, req>>

RequestStep(r) == \/ ReadContext(r) \/ GivesUp(r) \/ Ask(r) \/ Compact(r) \/ NextCandidate(r)
                  \/ Commit(r) \/ Close(r)
Settled == (\A r \in Requests : req[r].st = "over") /\ UNCHANGED vars
Next == \/ \E r \in Requests :
              \/ \E e \in Events : Claim(r, e)
              \/ Refuse(r) \/ RequestStep(r) \/ Crash(r)
        \/ \E e \in Events : LeaseExpires(e)
        \/ Update \/ Delete \/ AddCheckpoint \/ Settled
Spec == Init /\ [][Next]_vars

----------------------------------------------------------------------------
(* Correctness *)

\* An answer follows its own input, with no other message in between, although
\* the input may have been stored long before and by another request.
AnswerFollowsInput ==
    \A s \in Messages : log[s].kind = "answer" =>
        LET e == log[s].event
        IN  turn[e].end < s /\ \A t \in Messages : t < s => t <= turn[e].end

\* What a client was told to be answered is stored.
SuccessIsStored ==
    \A r \in Requests : req[r].result = "success" /\ status # "deleted" =>
        turn[req[r].event].state = "completed"

\* Row s is in the conversation that starts with the version c: word by word, or at
\* least not summarised, and cut short only as a tool result.
Exact(c, s) == s > c.through \/ s \in c.pins \ c.short
Intact(c, s) == Exact(c, s) \/ (s \in c.pins /\ ReduceResults /\ log[s].kind = "result")

\* No compaction, by whomever and from however old a reading, has summarised the
\* input of an unresolved turn; all that it may have cut short in it are tool
\* results, and only with cfg.reduce_tool_results: what one compaction has pinned, the
\* next one does not protect, although design/memory-reliability.md lets unresolved
\* inputs "remain exact".
UnresolvedIsKept ==
    \A e \in Events : turn[e].state \in {"pending", "failed"} =>
        \A s \in InputOf(e) : Intact(compaction, s)

\* An answer is stored only if the model was asked with the whole conversation
\* before it: no message was added after the context was read, no other
\* compaction has taken its place, and its own input was in it; what no compaction
\* had reached when the request read it, even word by word.
CommitsOnTheWhole ==
    [][\A r \in Requests :
         Commit(r) => /\ \A s \in Messages : s <= req[r].upto
                      /\ req[r].known = compaction
                      /\ \A s \in InputOf(req[r].event) :
                             /\ Intact(req[r].known, s)
                             /\ s \in req[r].protected => Exact(req[r].known, s)]_vars
=============================================================================
