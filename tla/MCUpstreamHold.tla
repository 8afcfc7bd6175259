--------------------------- MODULE MCUpstreamHold ---------------------------
(* The instance of UpstreamHold for TLC: a server and its standby. *)
EXTENDS UpstreamHold

CONSTANTS strata, ollama
=============================================================================
