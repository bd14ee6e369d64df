--------------------------- MODULE ReliableChannel ---------------------------
(***************************************************************************)
(* What ordered delivery promises the game layer: the payloads one peer    *)
(* sends on ordering channel 0 are handed over completely, once each and   *)
(* in the order they were sent.  One step may hand over several payloads,  *)
(* because closing a gap releases everything that waited behind it.        *)
(***************************************************************************)
EXTENDS Naturals, Sequences

CONSTANT Payload            \* what a frame can carry

VARIABLES sent,             \* the payloads the peer has sent, in order
          delivered         \* the payloads handed over, in order

vars == <<sent, delivered>>

TypeOK == /\ sent \in Seq(Payload)
          /\ delivered \in Seq(Payload)

Init == /\ sent = <<>>
        /\ delivered = <<>>

Send(p) == /\ sent' = Append(sent, p)
           /\ UNCHANGED delivered

\* Hand over the next n payloads of the peer's sequence.
Deliver(n) == /\ Len(delivered) + n <= Len(sent)
              /\ delivered' = SubSeq(sent, 1, Len(delivered) + n)
              /\ UNCHANGED sent

Next == \/ \E p \in Payload : Send(p)
        \/ \E n \in 1..Len(sent) : Deliver(n)

Spec == Init /\ [][Next]_vars
=============================================================================
