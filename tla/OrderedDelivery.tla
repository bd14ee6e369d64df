--------------------------- MODULE OrderedDelivery ---------------------------
(***************************************************************************)
(* Reliable-ordered delivery of one session's incoming frames:             *)
(* deliverOrdered() of LBNet/Server/PacketHandler.cpp over the fields      *)
(* nextExpectedOrderingIndex and orderedFrameBuffer of ClientState.        *)
(*                                                                         *)
(* The peer (the game client, external) numbers its Reliability-3 frames   *)
(* 0, 1, 2, ... on a 24-bit field.  UDP loses, duplicates and reorders the *)
(* datagrams that carry them: "network" only grows, receiving leaves the   *)
(* frame where it is (duplication), any frame may be received next         *)
(* (reordering) and no frame has to be (loss).                             *)
(***************************************************************************)
EXTENDS Integers, Sequences

CONSTANTS Ordinary,      \* payloads processFrameContent() handles and returns from
          Malformed,     \* batches whose length prefix makes it throw
          Closing,       \* disconnection notifications (0x15)
          IndexSpace,    \* number of ordering indices on the wire, 2^24
          Window,        \* how far the peer runs ahead of what was handled
          MaxSent        \* bound: how many ordered frames the peer sends

ASSUME PayloadAssumption == /\ Ordinary \cap Malformed = {}
                            /\ Ordinary \cap Closing = {}
                            /\ Malformed \cap Closing = {}
ASSUME BoundAssumption == IndexSpace \in Nat \ {0} /\ Window \in Nat /\ MaxSent \in Nat

Payload == Ordinary \cup Malformed \cup Closing
Frame   == [orderingIndex : 0..(IndexSpace - 1), payload : Payload]

VARIABLES sent,          \* peer: payloads sent so far, in order
          network,       \* frames some datagram may bring to the server
          acked,         \* frames whose datagram the server has acknowledged
          session,       \* "open", "removed" (erased), or "faulted" (see Closed)
          nextExpectedOrderingIndex,
          orderedFrameBuffer,
          delivered      \* payloads whose processing returned, in that order

server == <<session, nextExpectedOrderingIndex, orderedFrameBuffer, delivered>>
vars   == <<sent, network, acked, server>>

TypeOK ==
  /\ sent \in Seq(Payload)
  /\ network \in SUBSET Frame
  /\ acked \in SUBSET Frame
  /\ session \in {"open", "removed", "faulted"}
  /\ nextExpectedOrderingIndex \in Nat
  /\ DOMAIN orderedFrameBuffer \subseteq 0..(IndexSpace - 1)
  /\ \A k \in DOMAIN orderedFrameBuffer : orderedFrameBuffer[k] \in Payload
  /\ delivered \in Seq(Payload)

Init ==
  /\ sent = <<>>
  /\ network = {}
  /\ acked = {}
  /\ session = "open"
  /\ nextExpectedOrderingIndex = 0
  /\ orderedFrameBuffer = <<>>
  /\ delivered = <<>>

-----------------------------------------------------------------------------
(* The peer: RakNet's sender keeps a window of unacknowledged frames.  A    *)
(* disconnection notification is the last thing it sends.                  *)

PeerSend(p) ==
  /\ Len(sent) < MaxSent
  /\ Len(sent) < Len(delivered) + Window
  /\ \A i \in DOMAIN sent : sent[i] \notin Closing
  /\ sent' = Append(sent, p)
  /\ network' = network \cup {[orderingIndex |-> Len(sent) % IndexSpace, payload |-> p]}
  /\ UNCHANGED <<acked, server>>

-----------------------------------------------------------------------------
(* deliverOrdered(): one frame of a datagram for an existing session.      *)

\* Below the expected index: already delivered, dropped.
DropStale(f) ==
  /\ f.orderingIndex < nextExpectedOrderingIndex
  /\ UNCHANGED server

\* std::map assignment: the payload kept for index k.
Put(buffer, k, payload) ==
  [j \in DOMAIN buffer \cup {k} |-> IF j = k THEN payload ELSE buffer[j]]

\* Mutant: an early frame is handed on at once.
BufferEarlyDelivers(f) ==
  /\ f.orderingIndex > nextExpectedOrderingIndex
  /\ nextExpectedOrderingIndex' = f.orderingIndex + 1
  /\ delivered' = Append(delivered, f.payload)
  /\ UNCHANGED <<session, orderedFrameBuffer>>

\* Above the expected index: kept until the gap in front of it closes.
BufferEarly(f) ==
  /\ f.orderingIndex > nextExpectedOrderingIndex
  /\ orderedFrameBuffer' = Put(orderedFrameBuffer, f.orderingIndex, f.payload)
  /\ UNCHANGED <<session, nextExpectedOrderingIndex, delivered>>

\* What is left of the buffer once every index up to k has been taken out.
After(k, buffer) == [j \in {i \in DOMAIN buffer : i > k} |-> buffer[j]]

\* The payloads of indices first..last.
Run(buffer, first, last) == [i \in 1..(last - first + 1) |-> buffer[first + i - 1]]

\* Mutant: no loop, only the frame that closed the gap is handed on.
StopsAtOnce(ready, last) == last = nextExpectedOrderingIndex

\* The first index the drain loop stops at is `last`: everything from the
\* expected index to `last` is there and was handled normally before it.
StopsAt(ready, last) ==
  LET first == nextExpectedOrderingIndex
  IN  /\ last \in DOMAIN ready /\ last >= first
      /\ \A k \in first..last : k \in DOMAIN ready
      /\ \A k \in first..(last - 1) : ready[k] \in Ordinary
      /\ ready[last] \in Ordinary => last + 1 \notin DOMAIN ready

\* Mutant: the drain does not erase what it hands on.
DrainedKeeps(ready, last) ==
  /\ ready[last] \in Ordinary
  /\ nextExpectedOrderingIndex' = last + 1
  /\ orderedFrameBuffer' = ready
  /\ delivered' = delivered \o Run(ready, nextExpectedOrderingIndex, last)
  /\ UNCHANGED session

\* The loop found nothing buffered at the next index.
Drained(ready, last) ==
  /\ ready[last] \in Ordinary
  /\ nextExpectedOrderingIndex' = last + 1
  /\ orderedFrameBuffer' = After(last, ready)
  /\ delivered' = delivered \o Run(ready, nextExpectedOrderingIndex, last)
  /\ UNCHANGED session

\* Mutant: a failed batch takes the index back for another try, also from 0.
ThrewTakesBack(ready, last) ==
  /\ ready[last] \in Malformed
  /\ nextExpectedOrderingIndex' = last - 1
  /\ orderedFrameBuffer' = After(last, ready)
  /\ delivered' = delivered \o Run(ready, nextExpectedOrderingIndex, last - 1)
  /\ UNCHANGED session

\* processFrameContent() threw: the exception leaves deliverOrdered() before
\* the index advances, and the payload is no longer in the buffer.
Threw(ready, last) ==
  /\ ready[last] \in Malformed
  /\ nextExpectedOrderingIndex' = last
  /\ orderedFrameBuffer' = After(last, ready)
  /\ delivered' = delivered \o Run(ready, nextExpectedOrderingIndex, last - 1)
  /\ UNCHANGED session

\* processFrameContent() erased the session.  The call goes on to increment
\* the index and search the buffer of the freed object: that either finds
\* nothing, as the buffer was empty, or takes the process down.
Closed(ready, last) ==
  /\ ready[last] \in Closing
  /\ session' \in {"removed", "faulted"}
  /\ nextExpectedOrderingIndex' = 0
  /\ orderedFrameBuffer' = <<>>
  /\ delivered' = delivered \o Run(ready, nextExpectedOrderingIndex, last)

\* Exactly the expected index: deliver it, then drain what waited behind it.
DeliverAndDrain(f) ==
  /\ f.orderingIndex = nextExpectedOrderingIndex
  /\ LET ready == Put(orderedFrameBuffer, f.orderingIndex, f.payload)
     IN  \E last \in DOMAIN ready :
           /\ StopsAt(ready, last)
           /\ Drained(ready, last) \/ Threw(ready, last) \/ Closed(ready, last)

\* decodePacket() acknowledges the datagram before it hands the frame on, and
\* ignores a datagram from an address without a session.
deliverOrdered(f) ==
  /\ f \in network
  /\ session = "open"
  /\ acked' = acked \cup {f}
  /\ DropStale(f) \/ BufferEarly(f) \/ DeliverAndDrain(f)
  /\ UNCHANGED <<sent, network>>

Next == \/ \E p \in Payload : PeerSend(p)
        \/ \E f \in Frame : deliverOrdered(f)

Spec == Init /\ [][Next]_vars

\* RakNet's sender repeats a reliable frame until it is acknowledged, so every
\* frame is received once.  It need not come again after that, whatever the
\* server did with it.
Fairness == \A f \in Frame : WF_vars(f \notin acked /\ deliverOrdered(f))
FairSpec == Spec /\ Fairness

-----------------------------------------------------------------------------
(* Properties                                                              *)

Channel == INSTANCE ReliableChannel

\* The game layer sees the peer's payloads complete, once each and in the
\* peer's order, whatever the network does (the claim of the comment above
\* deliverOrdered(), PacketHandler.cpp:61-75).
ImplementsChannel == Channel!Spec

\* While the session lives, the expected index counts what was handled, and
\* the buffer holds only payloads the peer sent at their index, all of them
\* still to come: nothing can be delivered twice or under another's index.
BufferMatchesPeer ==
  session = "open" =>
    /\ nextExpectedOrderingIndex = Len(delivered)
    /\ \A k \in DOMAIN orderedFrameBuffer :
         /\ k > nextExpectedOrderingIndex
         /\ k < Len(sent)
         /\ orderedFrameBuffer[k] = sent[k + 1]

\* The n-th payload of a peer that sent no malformed batch before it is
\* eventually handled: no gap is left open and no buffered frame forgotten.
EveryPayloadDelivered ==
  \A n \in 1..MaxSent :
    (Len(sent) >= n /\ \A i \in 1..n : sent[i] \notin Malformed) ~> (Len(delivered) >= n)

\* Every frame the peer sends is eventually left behind, handled or dropped
\* on its own: "A malformed/truncated packet must never crash the server: the
\* read helpers now throw on over-reads and it is caught here, per packet"
\* (LBBNet/Server/PacketHandler.cpp:379-380), and only what was delivered
\* before is dropped as stale (LBNet/Server/PacketHandler.cpp:68-75).
EveryIndexPassed ==
  \A n \in 1..MaxSent :
    (Len(sent) >= n) ~> (session # "open" \/ nextExpectedOrderingIndex >= n)
=============================================================================
