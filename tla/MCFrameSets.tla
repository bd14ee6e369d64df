----------------------------- MODULE MCFrameSets -----------------------------
(* Kinds of messages and bounds for TLC; see FrameSets.  ContentChecks is here for its
   assumptions, which TLC evaluates before the run. *)
EXTENDS FrameSets, ContentChecks

Message(ordered, parts, content) == [ordered |-> ordered, parts |-> parts, content |-> content]

MCKinds == {Message(TRUE, 1, "ordinary"), Message(TRUE, 2, "ordinary"),
            Message(FALSE, 1, "ordinary"), Message(FALSE, 2, "ordinary"),
            Message(TRUE, 1, "malformed"), Message(FALSE, 1, "malformed"),
            Message(TRUE, 1, "closing")}
=============================================================================
