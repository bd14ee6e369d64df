--------------------------- MODULE MCGameSession ---------------------------
(* Bounds for TLC; see GameSession.  ServerConfig is here for the assumptions at
   its end, which TLC evaluates before the run. *)
EXTENDS GameSession, ServerConfig
=============================================================================
