------------------------------ MODULE FrameSets ------------------------------
(***************************************************************************)
(* Receiving one session's FrameSets: the frame loop of decodePacket() in  *)
(* LBNet/Server/PacketHandler.cpp, with its reassembly of split frames, on *)
(* top of the ordered delivery of OrderedDelivery.                         *)
(*                                                                         *)
(* The peer (external) cuts messages into fragments and puts one or two    *)
(* frames into a datagram.  A datagram may be received late, again or      *)
(* never.  Frames are sent again, in datagrams with new numbers and        *)
(* perhaps grouped otherwise, also when the server has acknowledged them:  *)
(* the ACK may be lost.                                                    *)
(*                                                                         *)
(* The loop over a datagram's frames takes one step per frame, so that the *)
(* actions of OrderedDelivery can be used; nobody else moves in between.   *)
(* NACKs and the size of ackedSeqs are in DatagramAcks.                    *)
(***************************************************************************)
EXTENDS Integers, Sequences, FiniteSets, Functions

CONSTANTS Kinds,         \* the kinds of message the peer may send
          SplitIds,      \* number of split ids on the wire, 2^16
          MaxMessages,   \* bound: messages the peer sends
          MaxDatagrams   \* bound: datagrams it sends them in

ASSUME KindsAssumption ==
  \A kind \in Kinds : /\ kind.ordered \in BOOLEAN      \* Reliability 3?
                      /\ kind.parts \in Nat \ {0}
                      /\ kind.content \in {"ordinary", "malformed", "closing"}
                      \* RakNet orders its disconnection notification.
                      /\ kind.content = "closing" => kind.ordered
ASSUME BoundsAssumption == SplitIds \in Nat \ {0} /\ MaxMessages \in Nat /\ MaxDatagrams \in Nat

\* The frames of message n, and at the same time its payload put together.
Whole(n, kind) == [i \in 1..kind.parts |-> [message |-> n, part |-> i, kind |-> kind]]

Messages == {Whole(n, kind) : n \in 1..MaxMessages, kind \in Kinds}
Fragment == UNION {Range(message) : message \in Messages}
Ordered(content) ==
  {message \in Messages : message[1].kind.ordered /\ message[1].kind.content = content}

VARIABLES messages,      \* peer: the messages so far
          datagrams,     \* peer: what it has put into datagrams, by contents
          acked,         \* datagrams the server has received and acknowledged
          inbox,         \* frames the loop of decodePacket() has yet to handle
          splitBuffers,
          plain,         \* payloads handled outside the ordering channel
          offered,       \* history: what deliverOrdered() was called with
          session, nextExpectedOrderingIndex, orderedFrameBuffer, delivered

ordering == <<session, nextExpectedOrderingIndex, orderedFrameBuffer, delivered>>
peer     == <<messages, datagrams>>
vars     == <<peer, acked, inbox, splitBuffers, plain, offered, ordering>>

-----------------------------------------------------------------------------
(* What the peer writes into its frames. *)

Kind(n) == messages[n][1].kind
OrderingIndex(n) == Cardinality({m \in 1..(n - 1) : Kind(m).ordered})
SplitId(n) == Cardinality({m \in 1..(n - 1) : Kind(m).parts > 1}) % SplitIds

Existing == UNION {Range(messages[n]) : n \in DOMAIN messages}
Untransmitted == Existing \ UNION {Range(d) : d \in datagrams}

OrderedNumbers == {n \in DOMAIN messages : Kind(n).ordered}

\* What the peer has sent on the ordering channel, in the order of the indices.
OrderedSent ==
  [i \in 1..Cardinality(OrderedNumbers) |->
     messages[CHOOSE n \in OrderedNumbers : OrderingIndex(n) = i - 1]]

\* deliverOrdered() sees the messages on the ordering channel, put together.
Ordering == INSTANCE OrderedDelivery WITH
  Ordinary   <- Ordered("ordinary"),
  Malformed  <- Ordered("malformed"),
  Closing    <- Ordered("closing"),
  IndexSpace <- MaxMessages + 1,
  Window     <- MaxMessages + 1,
  MaxSent    <- MaxMessages,
  sent       <- OrderedSent,
  network    <- {[orderingIndex |-> OrderingIndex(n), payload |-> messages[n]] :
                   n \in OrderedNumbers},
  acked      <- offered

TypeOK ==
  /\ messages \in Seq(Messages) /\ Len(messages) <= MaxMessages
  /\ datagrams \subseteq Seq(Fragment) /\ Cardinality(datagrams) <= MaxDatagrams
  /\ acked \subseteq datagrams
  /\ inbox \in Seq(Fragment)
  /\ DOMAIN splitBuffers \subseteq 0..(SplitIds - 1)
  /\ \A id \in DOMAIN splitBuffers :
       /\ splitBuffers[id].splitCount \in Nat
       /\ DOMAIN splitBuffers[id].fragments \in SUBSET (1..splitBuffers[id].splitCount)
  /\ plain \subseteq Range(messages)
  /\ Ordering!TypeOK

Init ==
  /\ messages = <<>>
  /\ datagrams = {}
  /\ acked = {}
  /\ inbox = <<>>
  /\ splitBuffers = <<>>
  /\ plain = {}
  /\ Ordering!Init

-----------------------------------------------------------------------------
(* The peer.  A disconnection notification is the last thing it sends.  It  *)
(* queues a message when no more than one frame waits to be transmitted.   *)

PeerSend(kind) ==
  /\ inbox = <<>>
  /\ Len(messages) < MaxMessages
  /\ Cardinality(Untransmitted) <= 1
  /\ \A n \in DOMAIN messages : Kind(n).content # "closing"
  /\ messages' = Append(messages, Whole(Len(messages) + 1, kind))
  /\ UNCHANGED <<datagrams, acked, inbox, splitBuffers, plain, offered, ordering>>

Before(f, g) == f.message < g.message \/ (f.message = g.message /\ f.part < g.part)

\* New frames are transmitted in order, alone or behind one that is repeated.
IsNext(f, frames) == f \in frames /\ \A g \in frames : ~Before(g, f)
Repeatable == Existing \ Untransmitted
Datagrams ==
  {<<f>> : f \in Repeatable}
  \cup {<<f>> : f \in {g \in Untransmitted : IsNext(g, Untransmitted)}}
  \cup {d \in (Repeatable \cup Untransmitted) \X Untransmitted :
           \/ d[1] \in Repeatable /\ IsNext(d[2], Untransmitted)
           \/ IsNext(d[1], Untransmitted) /\ IsNext(d[2], Untransmitted \ {d[1]})}

SendDatagram(d) ==
  /\ inbox = <<>>
  /\ Cardinality(datagrams) < MaxDatagrams
  /\ datagrams' = datagrams \cup {d}
  /\ UNCHANGED <<messages, acked, inbox, splitBuffers, plain, offered, ordering>>

-----------------------------------------------------------------------------
(* decodePacket() *)

\* The datagram is acknowledged before any of its frames is handled.
ReceiveDatagram(d) ==
  /\ session = "open"
  /\ inbox = <<>>
  /\ d \in datagrams
  /\ acked' = acked \cup {d}
  /\ inbox' = d
  /\ UNCHANGED <<messages, datagrams, splitBuffers, plain, offered, ordering>>

\* Mutant: one split buffer for the whole session.
KeyShared(f) == 0

\* Which split buffer a frame belongs to.
Key(f) == SplitId(f.message)

\* Mutant: the fragment's index taken for one that starts at 1.
StoredOffByOne(f) ==
  LET old == IF Key(f) \in DOMAIN splitBuffers THEN splitBuffers[Key(f)].fragments ELSE <<>>
  IN  [splitCount |-> f.kind.parts, fragments |-> Ordering!Put(old, f.part - 1, f)]

\* The split buffer of the frame's message with the frame in it.
Stored(f) ==
  LET old == IF Key(f) \in DOMAIN splitBuffers THEN splitBuffers[Key(f)].fragments ELSE <<>>
  IN  [splitCount |-> f.kind.parts, fragments |-> Ordering!Put(old, f.part, f)]

\* Mutant: one fragment too many is waited for.
IsCompleteLate(buffer) == Cardinality(DOMAIN buffer.fragments) > buffer.splitCount

IsComplete(buffer) == Cardinality(DOMAIN buffer.fragments) >= buffer.splitCount

\* The fragments in the order of their indices; one that is not there would
\* add nothing.
Reassembled(buffer) ==
  LET parts == {i \in 1..buffer.splitCount : i \in DOMAIN buffer.fragments}
  IN  [i \in 1..Cardinality(parts) |->
         buffer.fragments[CHOOSE j \in parts : Cardinality({k \in parts : k <= j}) = i]]

\* A fragment that does not complete its message waits for the others.
WaitForFragments(f) ==
  /\ ~IsComplete(Stored(f))
  /\ splitBuffers' = Ordering!Put(splitBuffers, Key(f), Stored(f))
  /\ inbox' = Tail(inbox)
  /\ UNCHANGED <<plain, offered, ordering>>

\* Mutant: the loop is left instead of continued.
HandlePlainReturns(f, payload) ==
  /\ ~f.kind.ordered
  /\ plain' = IF f.kind.content = "malformed" THEN plain ELSE plain \cup {payload}
  /\ inbox' = <<>>
  /\ UNCHANGED <<offered, ordering>>

\* Every reliability but 3: processFrameContent() at once, also when the frame
\* comes again.  Its exception leaves the frame loop.
HandlePlain(f, payload) ==
  /\ ~f.kind.ordered
  /\ IF f.kind.content = "malformed"
     THEN inbox' = <<>> /\ UNCHANGED plain
     ELSE inbox' = Tail(inbox) /\ plain' = plain \cup {payload}
  /\ UNCHANGED <<offered, ordering>>

\* Reliability 3: deliverOrdered().  An exception leaves the frame loop, too,
\* and so does the end of the session.
HandleOrdered(f, payload) ==
  LET frame == [orderingIndex |-> OrderingIndex(f.message), payload |-> payload]
      ready == Ordering!Put(orderedFrameBuffer, frame.orderingIndex, payload)
  IN  /\ f.kind.ordered
      /\ offered' = offered \cup {frame}
      /\ \/ (Ordering!DropStale(frame) \/ Ordering!BufferEarly(frame)) /\ inbox' = Tail(inbox)
         \/ /\ frame.orderingIndex = nextExpectedOrderingIndex
            /\ \E last \in DOMAIN ready :
                 /\ Ordering!StopsAt(ready, last)
                 /\ \/ Ordering!Drained(ready, last) /\ inbox' = Tail(inbox)
                    \/ (Ordering!Threw(ready, last) \/ Ordering!Closed(ready, last)) /\ inbox' = <<>>
      /\ UNCHANGED plain

HandlePayload(f, payload) == HandlePlain(f, payload) \/ HandleOrdered(f, payload)

\* Mutant: the buffer is not erased.
HandleReassembledKeeps(f) ==
  /\ IsComplete(Stored(f))
  /\ HandlePayload(f, Reassembled(Stored(f)))
  /\ splitBuffers' = IF session' # "open" THEN <<>>
                     ELSE Ordering!Put(splitBuffers, Key(f), Stored(f))

\* The fragment that completes its message: the buffer is erased, then the
\* payload is handled.  With the session its buffers are gone.
HandleReassembled(f) ==
  /\ IsComplete(Stored(f))
  /\ HandlePayload(f, Reassembled(Stored(f)))
  /\ splitBuffers' = IF session' # "open" THEN <<>>
                     ELSE Restrict(splitBuffers, DOMAIN splitBuffers \ {Key(f)})

\* A frame that is a whole message.
HandleUnsplit(f) ==
  /\ HandlePayload(f, <<f>>)
  /\ splitBuffers' = IF session' # "open" THEN <<>> ELSE splitBuffers

HandleFrame ==
  /\ inbox # <<>>
  /\ LET f == Head(inbox)
     IN  IF f.kind.parts > 1 THEN WaitForFragments(f) \/ HandleReassembled(f)
                             ELSE HandleUnsplit(f)
  /\ UNCHANGED <<peer, acked>>

Next == \/ \E kind \in Kinds : PeerSend(kind)
        \/ \E d \in Datagrams : SendDatagram(d)
        \/ \E d \in datagrams : ReceiveDatagram(d)
        \/ HandleFrame

Spec == Init /\ [][Next]_vars

\* decodePacket() always runs to its end.  The peer repeats each frame until it
\* is acknowledged, so the frame gets through, however many other datagrams
\* come before it.
Arrives(n, i) ==
  /\ n \in DOMAIN messages /\ i <= Kind(n).parts
  /\ \A d \in acked : messages[n][i] \notin Range(d)
  /\ \E d \in datagrams : messages[n][i] \in Range(d) /\ ReceiveDatagram(d)
MaxParts == CHOOSE i \in {kind.parts : kind \in Kinds} : \A kind \in Kinds : kind.parts <= i
Fairness == /\ WF_vars(HandleFrame)
            /\ \A n \in 1..MaxMessages : \A i \in 1..MaxParts : SF_vars(Arrives(n, i))
FairSpec == Spec /\ Fairness

-----------------------------------------------------------------------------
(* Properties *)

\* The frame loop drives deliverOrdered() with the peer's ordered messages,
\* each put together from its own fragments (PacketHandler.cpp:212-225), and
\* never with anything else.
ImplementsOrdering == Ordering!Spec

\* A split buffer holds fragments of one message, fewer than it has: nothing
\* of two messages is mixed, and no complete message is left waiting.
BuffersOfOneMessage ==
  \A id \in DOMAIN splitBuffers :
    \E n \in DOMAIN messages :
      /\ SplitId(n) = id
      /\ splitBuffers[id].splitCount = Kind(n).parts
      /\ Range(splitBuffers[id].fragments) \subseteq Range(messages[n])
      /\ Cardinality(DOMAIN splitBuffers[id].fragments) < Kind(n).parts

Handled(n) == n \in DOMAIN messages /\ messages[n] \in plain \cup Range(delivered)
AnyMalformed == \E n \in DOMAIN messages : Kind(n).content = "malformed"

\* The peer forgets a frame once its datagram is acknowledged.  Between two
\* datagrams each such frame has been handled or waits in a buffer, unless the
\* peer sends malformed batches: their exception drops the rest of a datagram.
AckedIsKept ==
  session = "open" /\ inbox = <<>> /\ ~AnyMalformed =>
    \A d \in acked : \A f \in Range(d) :
      \/ Handled(f.message)
      \/ Whole(f.message, f.kind) \in Range(orderedFrameBuffer)
      \/ \E id \in DOMAIN splitBuffers : f \in Range(splitBuffers[id].fragments)

\* Messages 1..n have been transmitted, all frames of each.
Transmitted(n) ==
  /\ n <= Len(messages)
  /\ \A f \in Untransmitted : f.message > n

\* Every message transmitted is handled in the end, with those before it,
\* whatever is lost, repeated, reordered or regrouped, and also when only the
\* ACK is lost.
EveryMessageHandled ==
  \A n \in 1..MaxMessages :
    Transmitted(n) ~> (Handled(n) \/ session # "open" \/ AnyMalformed)
=============================================================================
