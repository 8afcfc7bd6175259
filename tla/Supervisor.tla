----------------------------- MODULE Supervisor -----------------------------
(* The agent's supervisor (agent/supervisor.go): one loop per child that starts
   it, waits for its end and starts it again, and the orders Hold, Release and
   Park of other parts of the agent.

   A step is what a goroutine does under one lock or around one system call; a
   process and what it has started are one.  Shutdown of the agent is not
   modelled: its children end with it. *)
CONSTANT Children

VARIABLES
    held,      \* childState.held
    shown,     \* childState.Running, what Hold and the others go by
    proc,      \* the child's process: none, alive, dying (killed, not gone yet)
    loop       \* where the child's loop is

supervisorVars == <<held, shown, proc, loop>>

\* gate: waitWhileHeld; launch: past it; spawned: the process exists, Running is
\* not set yet; watching: runOnce waits for its end; failed: cmd.Start failed.
LoopStates == {"gate", "launch", "spawned", "watching", "failed", "backoff"}

SupervisorTypeOK ==
    /\ held \in [Children -> BOOLEAN] /\ shown \in [Children -> BOOLEAN]
    /\ proc \in [Children -> {"none", "alive", "dying"}]
    /\ loop \in [Children -> LoopStates]

\* Before Run: `parked` is the child that Park was called for.
SupervisorInit(parked) ==
    /\ held = [c \in Children |-> c = parked]
    /\ shown = [c \in Children |-> FALSE]
    /\ proc = [c \in Children |-> "none"]
    /\ loop = [c \in Children |-> "gate"]

LoopGoes(c, from, to) == loop[c] = from /\ loop' = [loop EXCEPT ![c] = to]

PassGate(c) == ~held[c] /\ LoopGoes(c, "gate", "launch") /\ UNCHANGED <<held, shown, proc>>

\* cmd.Start, without another look at `held`.
Launch(c) ==
    /\ \/ LoopGoes(c, "launch", "spawned") /\ proc' = [proc EXCEPT ![c] = "alive"]
       \/ LoopGoes(c, "launch", "failed") /\ UNCHANGED proc
    /\ UNCHANGED <<held, shown>>

\* Running is set, kill is known.
Record(c) ==
    /\ LoopGoes(c, "spawned", "watching")
    /\ shown' = [shown EXCEPT ![c] = TRUE]
    /\ UNCHANGED <<held, proc>>

\* The process ends: a kill takes effect, it exits or crashes, the health check
\* or RestartChild ends it.
Dies(c) ==
    /\ proc[c] # "none"
    /\ proc' = [proc EXCEPT ![c] = "none"]
    /\ UNCHANGED <<held, shown, loop>>

\* Mutant: a held child's loop is over.
ReapLeaves(c) ==
    /\ proc[c] = "none"
    /\ \/ LoopGoes(c, "watching", IF held[c] THEN "failed" ELSE "backoff")
       \/ LoopGoes(c, "failed", "failed")
    /\ shown' = [shown EXCEPT ![c] = FALSE]
    /\ UNCHANGED <<held, proc>>
\* runOnce has returned: a held child waits at the gate, the others back off.
Reap(c) ==
    /\ proc[c] = "none"
    /\ LET next == IF held[c] THEN "gate" ELSE "backoff"
       IN  LoopGoes(c, "watching", next) \/ LoopGoes(c, "failed", next)
    /\ shown' = [shown EXCEPT ![c] = FALSE]
    /\ UNCHANGED <<held, proc>>

BackoffOver(c) == LoopGoes(c, "backoff", "gate") /\ UNCHANGED <<held, shown, proc>>

LoopStep(c) == PassGate(c) \/ Launch(c) \/ Record(c) \/ Reap(c) \/ BackoffOver(c)

----------------------------------------------------------------------------
(* Orders of other goroutines *)

\* Hold up to its wait: what does not show as Running is not killed.
Hold(c) ==
    /\ held' = [held EXCEPT ![c] = TRUE]
    /\ proc' = IF shown[c] /\ proc[c] = "alive" THEN [proc EXCEPT ![c] = "dying"] ELSE proc
    /\ UNCHANGED <<shown, loop>>
\* What Hold returns: stopped, or not within its time.
HoldStopped(c) == ~shown[c]
HoldTimedOut(c) == shown[c]

Release(c) == held' = [held EXCEPT ![c] = FALSE] /\ UNCHANGED <<shown, proc, loop>>
=============================================================================
