----------------------------- MODULE MCRequests -----------------------------
(* Three repeats of one key - two of a role of the cloud, one of a client that asks *)
(* for the cloud with words it declares personal - and a stream whose words are     *)
(* checked before they leave the house. The assumptions of the modules of answers,  *)
(* of bodies and of access are evaluated with it.                                   *)
EXTENDS Requests, AnswerStreams, RequestBodies, Access

CONSTANTS r1, r2, r3, r4

Plain == [key |-> FALSE, stream |-> FALSE, pings |-> FALSE, embed |-> FALSE,
          serves |-> {"node", "cloud"}, execution |-> "auto", declared |-> 1, floor |-> Unset,
          check |-> FALSE, secret |-> FALSE, hit |-> FALSE]
Repeat == [Plain EXCEPT !.key = TRUE]
Asking == [Repeat EXCEPT !.execution = "cloud", !.declared = Personal, !.check = TRUE]
Checked == [Plain EXCEPT !.stream = TRUE, !.pings = TRUE, !.serves = Candidates, !.declared = Unset, !.check = TRUE]
FourKinds == [r \in Requests |-> CASE r \in {r1, r2} -> [Repeat EXCEPT !.serves = {"cloud"}]
                                   [] r = r3 -> Asking
                                   [] r = r4 -> Checked]
Slots == [node |-> 1, server |-> 1, cloud |-> 2]
=============================================================================
