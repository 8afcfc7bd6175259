---------------------------- MODULE MCOllamaSwap ----------------------------
(* Constants for TLC. *)
EXTENDS OllamaSwap
=============================================================================
