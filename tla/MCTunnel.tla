------------------------------ MODULE MCTunnel ------------------------------
(* Small instances of Tunnel for TLC. *)
EXTENDS Tunnel, TLC

CONSTANTS r1, r2, r3

Symmetric == Permutations(Requests)
=============================================================================
