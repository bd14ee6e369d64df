-------------------------- MODULE MCOrderedDelivery --------------------------
(* Model values and bounds for TLC; see OrderedDelivery.  LoginChecks is here for its
   assumptions, which TLC evaluates before the run. *)
EXTENDS OrderedDelivery, LoginChecks
=============================================================================
