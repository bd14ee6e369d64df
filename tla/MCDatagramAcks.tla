--------------------------- MODULE MCDatagramAcks ---------------------------
(* Bounds for TLC; see DatagramAcks.  WireChecks is here for its assumptions, *)
(* which TLC evaluates before the run.                                       *)
EXTENDS DatagramAcks, WireChecks
=============================================================================
