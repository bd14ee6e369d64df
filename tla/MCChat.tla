------------------------------- MODULE MCChat -------------------------------
(* Bounds for TLC; see Chat.  CommandChecks is here for its
   assumptions, which TLC evaluates before the run. *)
EXTENDS Chat, CommandChecks
=============================================================================
