------------------------------ MODULE Exchange ------------------------------
(* What a caller of the router expects of its request to a node, however it is
   carried (tunnel.TunnelRequest, "usable like SESSION.request()"): the head,
   then the data of the service in order and without gaps, and success only
   after all of it.  The call may fail at any time before. *)
EXTENDS Naturals

CONSTANT MaxChunks

VARIABLES
    phase,   \* the caller: none, asked, answered, complete, failed
    got,     \* pieces of data the caller has read
    made,    \* pieces of data the service has produced
    eof      \* the service has finished its answer

vars == <<phase, got, made, eof>>

Init == phase = "none" /\ got = 0 /\ made = 0 /\ eof = FALSE

Moves(from, to) == phase = from /\ phase' = to

Ask == Moves("none", "asked") /\ UNCHANGED <<got, made, eof>>

\* The service works only for requests that were made, its caller still there or not.
Make == /\ phase # "none" /\ ~eof /\ made < MaxChunks
        /\ made' = made + 1
        /\ UNCHANGED <<phase, got, eof>>
Finish == /\ phase # "none" /\ ~eof
          /\ eof' = TRUE
          /\ UNCHANGED <<phase, got, made>>

Answer == Moves("asked", "answered") /\ UNCHANGED <<got, made, eof>>
Take == /\ phase = "answered" /\ got < made
        /\ got' = got + 1
        /\ UNCHANGED <<phase, made, eof>>
Complete == /\ eof /\ got = made
            /\ Moves("answered", "complete")
            /\ UNCHANGED <<got, made, eof>>
Fail == /\ \E p \in {"none", "asked", "answered"} : Moves(p, "failed")
        /\ UNCHANGED <<got, made, eof>>

Next == Ask \/ Make \/ Finish \/ Answer \/ Take \/ Complete \/ Fail
\* What a system that carries the call may do in one step of its own.
Step == [Next]_vars
Spec == Init /\ [][Next]_vars
=============================================================================
