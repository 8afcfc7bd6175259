---------------------------- MODULE MCManagedTurns ----------------------------
(* The instance of ManagedTurns for TLC. *)
EXTENDS ManagedTurns, TLC

CONSTANTS r1, r2, r3, e1, e2, e3

Symmetric == Permutations(Requests) \cup Permutations(Events)
=============================================================================
