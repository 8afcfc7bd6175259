------------------------------ MODULE MCOutbox ------------------------------
(* The instance of Outbox for TLC: workers of two routers. The assumptions about    *)
(* access to banks and about recalls are evaluated with it.                         *)
EXTENDS Outbox, MemoryAccess, MemoryRecall

CONSTANTS w1, w2, alice, bob, home, house
=============================================================================
