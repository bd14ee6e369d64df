----------------------------- MODULE MCSessions -----------------------------
(* Model values and bounds for TLC; see Sessions.  GameBatches is here for the
   assumptions at its end, which TLC evaluates before the run. *)
EXTENDS Sessions, GameBatches
=============================================================================
