------------------------------ MODULE SendPath ------------------------------
(***************************************************************************)
(* What one session sends to its client: the datagrams of                  *)
(* flushGamePackets() (LBBNet/Packets/GamePacketSender.cpp) and of the     *)
(* other senders that share its counters, kept in sentPackets until they   *)
(* are acknowledged and sent again when the client reports them missing.   *)
(*                                                                         *)
(* A batch is its number and its size; a fragment is the byte range of the *)
(* batch it carries.  The network loses up to MaxLosses transmissions, and *)
(* delays, reorders and duplicates the others: "wire" only grows.          *)
(***************************************************************************)
EXTENDS Integers, Sequences, FiniteSets, FiniteSetsExt

CONSTANTS Sizes,          \* payload sizes a batch may have
          Mtu,            \* state.mtu, as negotiated
          FrameOverhead,  \* kFrameOverhead, 68
          SmallMtuBudget, \* fragment size where the MTU leaves no room, 1024
          MaxBatches,     \* bound: batches sent
          MaxRequests,    \* bound: connection requests answered
          MaxLosses       \* bound: transmissions lost

ASSUME SizeAssumption  == Sizes \subseteq Nat \ {0} /\ Mtu \in Nat /\ FrameOverhead \in Nat
                          /\ SmallMtuBudget \in Nat \ {0}
ASSUME BoundAssumption == MaxBatches \in Nat /\ MaxRequests \in Nat /\ MaxLosses \in Nat

VARIABLES nextSeqNum, nextReliableIndex, nextOrderingIndex, nextSplitId,
          sentPackets,    \* sequence number -> frame, until acknowledged
          flushed,        \* history: the batches handed to the socket
          wire,           \* transmissions the network may hand to the client
          losses,         \* how many it has lost
          requests,       \* bound: connection requests answered
          pongs,          \* bound: pongs sent since the last batch
          seen,           \* client: sequence numbers of the datagrams received
          frames,         \* client: the frames it kept, one per reliable index
          delivered       \* client: batches its ordering channel handed up

sender == <<nextSeqNum, nextReliableIndex, nextOrderingIndex, nextSplitId, sentPackets>>
client == <<seen, frames, delivered>>
vars   == <<sender, flushed, wire, losses, requests, pongs, client>>

Batch == [number : 1..MaxBatches, size : Sizes]
Garbled == [number |-> 0, size |-> 0]

Init ==
  /\ nextSeqNum = 0 /\ nextReliableIndex = 0
  /\ nextOrderingIndex = 0 /\ nextSplitId = 0
  /\ sentPackets = <<>>
  /\ flushed = <<>>
  /\ wire = {} /\ losses = 0 /\ requests = 0 /\ pongs = 0
  /\ seen = {} /\  frames = {} /\ delivered = <<>>

-----------------------------------------------------------------------------
(* Fragments *)

maxFragmentSize == IF Mtu > FrameOverhead THEN Mtu - FrameOverhead ELSE SmallMtuBudget

SplitCount(size) == (size + maxFragmentSize - 1) \div maxFragmentSize

\* Fragment i of the batch: bytes start..end-1.
Part(batch, i) ==
  [batch |-> batch,
   start |-> i * maxFragmentSize,
   end   |-> LET full == (i + 1) * maxFragmentSize
             IN  IF full < batch.size THEN full ELSE batch.size]

\* What the parts, joined in this order, are.
Joined(parts) ==
  LET first == parts[1]
      last  == parts[Len(parts)]
      whole == /\ \A i \in DOMAIN parts : parts[i].batch = first.batch
               /\ first.start = 0 /\ last.end = first.batch.size
               /\ \A i \in 1..(Len(parts) - 1) : parts[i].end = parts[i + 1].start
  IN  IF whole THEN first.batch ELSE Garbled

-----------------------------------------------------------------------------
(* Frames and datagrams *)

Unordered == -1
NoSplit   == [count |-> 1, id |-> -1, index |-> 0]

Frame(reliableIndex, orderingIndex, split, part) ==
  [reliableIndex |-> reliableIndex, orderingIndex |-> orderingIndex,
   split |-> split, part |-> part]

NoPart == Part(Garbled, 0)
Pong   == Frame(-1, Unordered, NoSplit, NoPart)

\* sendto(): some of these sequence numbers get lost on the way.
Transmit(datagrams) ==
  \E lost \in SUBSET DOMAIN datagrams :
    /\ losses + Cardinality(lost) <= MaxLosses
    /\ losses' = losses + Cardinality(lost)
    /\ wire' = wire \cup {<<seq, datagrams[seq]>> : seq \in DOMAIN datagrams \ lost}

\* Mutant: remembered under the incremented counter.
SendFramesMiskeyed(list) ==
  LET datagrams == [seq \in nextSeqNum..(nextSeqNum + Len(list) - 1) |->
                      list[seq - nextSeqNum + 1]]
  IN  /\ nextSeqNum' = nextSeqNum + Len(list)
      /\ sentPackets' = [seq \in DOMAIN sentPackets \cup {s + 1 : s \in DOMAIN datagrams} |->
                           IF seq - 1 \in DOMAIN datagrams
                           THEN datagrams[seq - 1] ELSE sentPackets[seq]]
      /\ Transmit(datagrams)

\* One datagram per frame, each kept under its sequence number.
SendFrames(list) ==
  LET datagrams == [seq \in nextSeqNum..(nextSeqNum + Len(list) - 1) |->
                      list[seq - nextSeqNum + 1]]
  IN  /\ nextSeqNum' = nextSeqNum + Len(list)
      /\ sentPackets' = [seq \in DOMAIN sentPackets \cup DOMAIN datagrams |->
                           IF seq \in DOMAIN datagrams
                           THEN datagrams[seq] ELSE sentPackets[seq]]
      /\ Transmit(datagrams)

-----------------------------------------------------------------------------
(* Senders *)

\* Mutant: each fragment takes an ordering index of its own.
BatchFramesOwnOrder(batch) ==
  LET n == SplitCount(batch.size)
      split(i) == IF n = 1 THEN NoSplit
                  ELSE [count |-> n, id |-> nextSplitId, index |-> i]
  IN  [i \in 1..n |-> Frame(nextReliableIndex + i - 1, nextOrderingIndex + i - 1,
                            split(i - 1), Part(batch, i - 1))]

\* Mutant: the fragments share one reliable index.
BatchFramesOneReliable(batch) ==
  LET n == SplitCount(batch.size)
      split(i) == IF n = 1 THEN NoSplit
                  ELSE [count |-> n, id |-> nextSplitId, index |-> i]
  IN  [i \in 1..n |-> Frame(nextReliableIndex, nextOrderingIndex,
                            split(i - 1), Part(batch, i - 1))]

\* The frames of a batch: each its reliable index, all one ordering index.
BatchFrames(batch) ==
  LET n == SplitCount(batch.size)
      split(i) == IF n = 1 THEN NoSplit
                  ELSE [count |-> n, id |-> nextSplitId, index |-> i]
  IN  [i \in 1..n |-> Frame(nextReliableIndex + i - 1, nextOrderingIndex,
                            split(i - 1), Part(batch, i - 1))]

\* A batch, in one datagram or in fragments.  sendNetworkSettings() is the
\* case of one datagram.
flushGamePackets(size) ==
  LET batch == [number |-> Len(flushed) + 1, size |-> size]
  IN  /\ Len(flushed) < MaxBatches
      /\ SendFrames(BatchFrames(batch))
      /\ nextReliableIndex' = nextReliableIndex + SplitCount(size)
      /\ nextOrderingIndex' = nextOrderingIndex + 1
      /\ nextSplitId' = IF size > maxFragmentSize THEN nextSplitId + 1 ELSE nextSplitId
      /\ flushed' = Append(flushed, batch)
      /\ pongs' = 0
      /\ UNCHANGED <<requests, client>>

\* Reliable but not ordered.  Every connection request is answered, a repeated
\* one in the middle of the session too.
sendConnectionRequestAccepted ==
  /\ requests < MaxRequests
  /\ SendFrames(<<Frame(nextReliableIndex, Unordered, NoSplit, NoPart)>>)
  /\ nextReliableIndex' = nextReliableIndex + 1
  /\ requests' = requests + 1
  /\ UNCHANGED <<nextOrderingIndex, nextSplitId, flushed, pongs, client>>

\* The answer to a ping: neither reliable nor ordered, but numbered and kept.
\* Bound: after a batch, one pong for every transmission that was ever lost.
sendConnectedPong ==
  /\ pongs < losses
  /\ SendFrames(<<Pong>>)
  /\ pongs' = pongs + 1
  /\ UNCHANGED <<nextReliableIndex, nextOrderingIndex, nextSplitId, flushed, requests, client>>

-----------------------------------------------------------------------------
(* decodePacket() of the client's acknowledgements.  A message lists ranges *)
(* of numbers; the code looks at the first number of the first range only.  *)

\* Mutant: everything up to the acknowledged number is forgotten.
AckCumulative(seq) ==
  /\ seq \in seen
  /\ sentPackets' = [s \in {t \in DOMAIN sentPackets : t > seq} |-> sentPackets[s]]
  /\ UNCHANGED <<nextSeqNum, nextReliableIndex, nextOrderingIndex, nextSplitId,
                 flushed, wire, losses, requests, pongs, client>>

ReceiveAck(seq) ==
  /\ seq \in seen
  /\ sentPackets' = [s \in DOMAIN sentPackets \ {seq} |-> sentPackets[s]]
  /\ UNCHANGED <<nextSeqNum, nextReliableIndex, nextOrderingIndex, nextSplitId,
                 flushed, wire, losses, requests, pongs, client>>

\* What the client can tell it misses: something later has come in.
MissingNow == {s \in 0..(nextSeqNum - 1) : s \notin seen /\ \E t \in seen : t > s}

\* The very datagram goes out again, if it is still kept.  (A report that comes
\* late only repeats what the client has, as the network may do anyway.)
ReceiveNack(seq) ==
  /\ seq \in MissingNow
  /\ seq \in DOMAIN sentPackets
  /\ Transmit([s \in {seq} |-> sentPackets[s]])
  /\ UNCHANGED <<sender, flushed, requests, pongs, client>>

-----------------------------------------------------------------------------
(* The client (external): a RakNet peer. *)

\* A reliable frame is kept once, by its index.
ClientReceive(datagram) ==
  LET seq == datagram[1]  frame == datagram[2]
  IN  /\ datagram \in wire
      /\ seen' = seen \cup {seq}
      /\ frames' = IF frame.reliableIndex = -1
                      \/ \E f \in frames : f.reliableIndex = frame.reliableIndex
                   THEN frames ELSE frames \cup {frame}
      /\ UNCHANGED <<sender, flushed, wire, losses, requests, pongs, delivered>>

\* The frames that make up the message of f, in order, once all are there.
Message(f) ==
  [i \in 1..f.split.count |->
     IF f.split = NoSplit THEN f.part
     ELSE (CHOOSE g \in frames : g.split = [f.split EXCEPT !.index = i - 1]).part]

Complete(f) ==
  f.split = NoSplit \/ \A i \in 0..(f.split.count - 1) :
                          \E g \in frames : g.split = [f.split EXCEPT !.index = i]

ClientDeliver ==
  \E f \in frames :
    /\ f.orderingIndex = Len(delivered)
    /\ Complete(f)
    /\ delivered' = Append(delivered, Joined(Message(f)))
    /\ UNCHANGED <<sender, flushed, wire, losses, requests, pongs, seen, frames>>

-----------------------------------------------------------------------------
ServerStep == \/ \E size \in Sizes : flushGamePackets(size)
              \/ sendConnectionRequestAccepted
              \/ sendConnectedPong
              \/ \E seq \in seen : ReceiveAck(seq)
              \/ \E seq \in MissingNow : ReceiveNack(seq)

ClientStep == \/ \E datagram \in wire : ClientReceive(datagram)
              \/ ClientDeliver

Next == ServerStep \/ ClientStep

Spec == Init /\ [][Next]_vars

\* The client pings now and then and is answered, and goes on asking for what
\* it misses; what is not lost arrives.  Nothing obliges the server to send a
\* batch, and it has no timer: it never sends again on its own account.
Last == MaxRequests + (MaxBatches + 1) * MaxLosses + MaxBatches * Max({SplitCount(s) : s \in Sizes})
Fairness ==
  /\ WF_vars(sendConnectedPong)
  /\ WF_vars(ClientDeliver)
  /\ \A seq \in 0..Last :
       /\ WF_vars((\A s \in MissingNow : seq <= s) /\ ReceiveNack(seq))
       /\ WF_vars(seq \notin seen /\ \E datagram \in wire :
                    datagram[1] = seq /\ ClientReceive(datagram))
FairSpec == Spec /\ Fairness

-----------------------------------------------------------------------------
(* Properties *)

\* The counters, and what is kept, which is only what has been sent.
TypeOK ==
  /\ nextSeqNum \in Nat /\ nextReliableIndex \in Nat
  /\ nextOrderingIndex \in Nat /\ nextSplitId \in Nat
  /\ DOMAIN sentPackets \subseteq 0..(nextSeqNum - 1)
  /\ flushed \in Seq(Batch)
  /\ losses \in 0..MaxLosses
  /\ seen \subseteq 0..(nextSeqNum - 1)

Channel == INSTANCE ReliableChannel WITH Payload <- Batch, sent <- flushed

\* The client's ordering channel hands up the batches whole, once each and in
\* the order they were flushed, fragmented or not, whatever is lost or sent
\* again and whatever else shares the counters.
ImplementsChannel == Channel!Spec

\* Whatever the client has not received is still kept, under its number and as
\* it was first sent: every loss it reports can be repaired.
LossRepairable ==
  \A seq \in 0..(nextSeqNum - 1) :
    \/ seq \in seen
    \/ /\ seq \in DOMAIN sentPackets
       /\ \A datagram \in wire : datagram[1] = seq => datagram[2] = sentPackets[seq]

\* Every batch reaches the client's game layer.  The last one is no exception:
\* only a later datagram makes the client notice its loss, and the next pong
\* is one, because pongs take numbers of the same sequence.
EveryBatchDelivered ==
  \A n \in 1..MaxBatches : (Len(flushed) >= n) ~> (Len(delivered) >= n)
=============================================================================
