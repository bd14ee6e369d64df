----------------------- MODULE OrderedDelivery_proofs -----------------------
(***************************************************************************)
(* Proofs about OrderedDelivery, for every set of payloads and every bound *)
(* on the number of frames that stays within the 24-bit index space.       *)
(***************************************************************************)
EXTENDS OrderedDelivery, SequenceTheorems, TLAPS

-----------------------------------------------------------------------------
(* Type correctness. *)

LEMMA TypeInit == Init => TypeOK
BY BoundAssumption DEF Init, TypeOK

LEMMA RunType ==
  ASSUME NEW buffer, NEW first \in Nat, NEW last \in Int, last >= first - 1,
         \A k \in first..last : buffer[k] \in Payload
  PROVE  /\ Run(buffer, first, last) \in Seq(Payload)
         /\ Len(Run(buffer, first, last)) = last - first + 1
         /\ \A i \in 1..(last - first + 1) :
              Run(buffer, first, last)[i] = buffer[first + i - 1]
<1> DEFINE n == last - first + 1
<1>1. n \in Nat
  OBVIOUS
<1>2. \A i \in 1..n : first + i - 1 \in first..last
  OBVIOUS
<1>3. Run(buffer, first, last) \in [1..n -> Payload]
  BY <1>2 DEF Run
<1> HIDE DEF n
<1>4. QED
  BY <1>1, <1>3 DEF Run, n

LEMMA TypeStep == TypeOK /\ [Next]_vars => TypeOK'
<1> SUFFICES ASSUME TypeOK, [Next]_vars PROVE TypeOK'
  OBVIOUS
<1> USE DEF TypeOK
<1>1. ASSUME NEW p \in Payload, PeerSend(p) PROVE TypeOK'
  <2>1. sent' \in Seq(Payload)
    BY <1>1 DEF PeerSend
  <2>2. Len(sent) % IndexSpace \in 0..(IndexSpace - 1)
    BY BoundAssumption
  <2>3. network' \in SUBSET Frame
    BY <1>1, <2>2 DEF PeerSend, Frame
  <2>4. QED
    BY <1>1, <2>1, <2>3 DEF PeerSend, server
<1>2. ASSUME NEW f \in Frame, deliverOrdered(f) PROVE TypeOK'
  <2>1. f.orderingIndex \in 0..(IndexSpace - 1) /\ f.payload \in Payload
    BY DEF Frame
  <2>2. CASE DropStale(f)
    BY <1>2, <2>2 DEF deliverOrdered, DropStale, server
  <2>3. CASE BufferEarly(f)
    BY <1>2, <2>1, <2>3 DEF deliverOrdered, BufferEarly, Put
  <2>4. CASE DeliverAndDrain(f)
    <3> DEFINE ready == Put(orderedFrameBuffer, f.orderingIndex, f.payload)
    <3>1. /\ DOMAIN ready \subseteq 0..(IndexSpace - 1)
          /\ \A k \in DOMAIN ready : ready[k] \in Payload
      BY <2>1 DEF Put
    <3>2. PICK last \in DOMAIN ready :
             /\ StopsAt(ready, last)
             /\ Drained(ready, last) \/ Threw(ready, last) \/ Closed(ready, last)
      BY <2>4 DEF DeliverAndDrain
    <3> HIDE DEF ready
    <3>3. /\ last \in Nat
          /\ last >= nextExpectedOrderingIndex
          /\ \A k \in nextExpectedOrderingIndex..last : ready[k] \in Payload
      BY <3>1, <3>2, BoundAssumption DEF StopsAt
    <3>4. /\ Run(ready, nextExpectedOrderingIndex, last) \in Seq(Payload)
          /\ Run(ready, nextExpectedOrderingIndex, last - 1) \in Seq(Payload)
      BY <3>3, RunType
    <3>5. /\ DOMAIN After(last, ready) \subseteq 0..(IndexSpace - 1)
          /\ \A k \in DOMAIN After(last, ready) : After(last, ready)[k] \in Payload
      BY <3>1 DEF After
    <3>6. CASE Drained(ready, last)
      <4>1. delivered' \in Seq(Payload)
        BY <3>4, <3>6, ConcatProperties DEF Drained
      <4>2. QED
        BY <1>2, <3>3, <3>5, <3>6, <4>1 DEF deliverOrdered, Drained
    <3>7. CASE Threw(ready, last)
      <4>1. delivered' \in Seq(Payload)
        BY <3>4, <3>7, ConcatProperties DEF Threw
      <4>2. QED
        BY <1>2, <3>3, <3>5, <3>7, <4>1 DEF deliverOrdered, Threw
    <3>8. CASE Closed(ready, last)
      BY <1>2, <3>4, <3>8, ConcatProperties DEF deliverOrdered, Closed
    <3>9. QED
      BY <3>2, <3>6, <3>7, <3>8
  <2>5. QED
    BY <1>2, <2>2, <2>3, <2>4 DEF deliverOrdered
<1>3. CASE UNCHANGED vars
  BY <1>3 DEF vars, server
<1>4. QED
  BY <1>1, <1>2, <1>3 DEF Next

\* Every variable keeps its type, whatever the peer sends.
THEOREM TypeCorrect == Spec => []TypeOK
BY TypeInit, TypeStep, PTL DEF Spec

-----------------------------------------------------------------------------
(* Ordered delivery. *)

\* The peer stays within the index space, so an index names one payload.
WithinBound == Len(sent) <= MaxSent

\* Every frame in flight carries the payload the peer sent at its index.
NetworkMatchesPeer ==
  \A f \in network : /\ f.orderingIndex < Len(sent)
                     /\ f.payload = sent[f.orderingIndex + 1]

\* What was handled is a prefix of what was sent.
DeliveredPrefix ==
  /\ Len(delivered) <= Len(sent)
  /\ \A i \in 1..Len(delivered) : delivered[i] = sent[i]

IInv == /\ TypeOK
        /\ WithinBound
        /\ NetworkMatchesPeer
        /\ DeliveredPrefix
        /\ BufferMatchesPeer

LEMMA IInvInit == Init => IInv
<1> SUFFICES ASSUME Init PROVE IInv
  OBVIOUS
<1>1. TypeOK
  BY TypeInit
<1>2. WithinBound /\ NetworkMatchesPeer /\ DeliveredPrefix /\ BufferMatchesPeer
  BY BoundAssumption
     DEF Init, WithinBound, NetworkMatchesPeer, DeliveredPrefix, BufferMatchesPeer
<1>3. QED
  BY <1>1, <1>2 DEF IInv

LEMMA SmallModulus ==
  ASSUME NEW a \in Nat, NEW b \in Nat, a < b
  PROVE  a % b = a
OBVIOUS

\* Sending keeps what is in flight, buffered and delivered in agreement with
\* the peer's log, as long as the new index has not been used before.
LEMMA PeerSendStep ==
  ASSUME MaxSent <= IndexSpace, IInv, NEW p \in Payload, PeerSend(p)
  PROVE  IInv'
<1> USE DEF IInv, TypeOK
<1>1. TypeOK'
  BY TypeStep DEF Next
<1>2. /\ Len(sent') = Len(sent) + 1
      /\ \A i \in 1..Len(sent) : sent'[i] = sent[i]
      /\ sent'[Len(sent) + 1] = p
  BY AppendProperties DEF PeerSend
<1>3. WithinBound'
  BY <1>2, BoundAssumption DEF PeerSend, WithinBound
<1>4. Len(sent) % IndexSpace = Len(sent)
  <2> DEFINE n == Len(sent)
  <2>1. n \in Nat /\ n < IndexSpace /\ IndexSpace \in Nat
    BY BoundAssumption DEF PeerSend
  <2> HIDE DEF n
  <2>2. n % IndexSpace = n
    BY <2>1, SmallModulus
  <2>3. QED
    BY <2>2 DEF n
<1>5. NetworkMatchesPeer'
  <2> SUFFICES ASSUME NEW f \in network'
               PROVE  f.orderingIndex < Len(sent') /\ f.payload = sent'[f.orderingIndex + 1]
    BY DEF NetworkMatchesPeer
  <2>1. CASE f \in network
    BY <1>2, <2>1 DEF NetworkMatchesPeer, Frame
  <2>2. CASE f = [orderingIndex |-> Len(sent), payload |-> p]
    BY <1>2, <2>2
  <2>3. QED
    BY <1>4, <2>1, <2>2 DEF PeerSend
<1>6. DeliveredPrefix'
  BY <1>2 DEF PeerSend, server, DeliveredPrefix
<1>7. BufferMatchesPeer'
  <2>1. CASE session # "open"
    BY <2>1 DEF PeerSend, server, BufferMatchesPeer
  <2>2. CASE session = "open"
    <3>1. \A k \in DOMAIN orderedFrameBuffer :
            k > nextExpectedOrderingIndex /\ k < Len(sent') /\ orderedFrameBuffer[k] = sent'[k + 1]
      BY <1>2, <2>2, BoundAssumption DEF BufferMatchesPeer
    <3>2. QED
      BY <2>2, <3>1 DEF PeerSend, server, BufferMatchesPeer
  <2>3. QED
    BY <2>1, <2>2
<1>8. QED
  BY <1>1, <1>3, <1>5, <1>6, <1>7

\* Appending the next payloads of the peer's log keeps the prefix a prefix.
LEMMA PrefixExtends ==
  ASSUME NEW log \in Seq(Payload), NEW done \in Seq(Payload), NEW more \in Seq(Payload),
         Len(done) + Len(more) <= Len(log),
         \A i \in 1..Len(done) : done[i] = log[i],
         \A i \in 1..Len(more) : more[i] = log[Len(done) + i]
  PROVE  /\ Len(done \o more) = Len(done) + Len(more)
         /\ \A i \in 1..Len(done \o more) : (done \o more)[i] = log[i]
<1>1. /\ Len(done \o more) = Len(done) + Len(more)
      /\ \A i \in 1..(Len(done) + Len(more)) :
           (done \o more)[i] = IF i <= Len(done) THEN done[i] ELSE more[i - Len(done)]
  BY ConcatProperties
<1>2. ASSUME NEW i \in 1..(Len(done) + Len(more)), i > Len(done)
      PROVE  more[i - Len(done)] = log[i]
  <2>1. i - Len(done) \in 1..Len(more)
    BY <1>2
  <2>2. Len(done) + (i - Len(done)) = i
    OBVIOUS
  <2>3. QED
    BY <2>1, <2>2
<1>3. QED
  BY <1>1, <1>2

\* The peer's log agrees with what a drain hands over (the payloads up to index
\* upto) and with what it leaves in the buffer.
DrainAgrees(ready, last, upto) ==
  LET extended == delivered \o Run(ready, nextExpectedOrderingIndex, upto)
  IN  /\ Len(extended) = upto + 1
      /\ upto + 1 <= Len(sent)
      /\ \A i \in 1..(upto + 1) : extended[i] = sent[i]
      /\ \A k \in DOMAIN After(last, ready) :
           k > last /\ k < Len(sent) /\ After(last, ready)[k] = sent[k + 1]

\* The drain: what it hands over continues the delivered prefix, and what it
\* leaves in the buffer is still to come.
LEMMA DrainFacts ==
  ASSUME IInv, session = "open",
         NEW f \in network, f.orderingIndex = nextExpectedOrderingIndex,
         NEW ready, ready = Put(orderedFrameBuffer, f.orderingIndex, f.payload),
         NEW last \in DOMAIN ready, StopsAt(ready, last),
         NEW upto \in Int, upto = last \/ upto + 1 = last
  PROVE  DrainAgrees(ready, last, upto)
<1> USE DEF IInv, TypeOK
<1> DEFINE next == nextExpectedOrderingIndex
<1>1. /\ DOMAIN ready \subseteq Nat
      /\ \A k \in DOMAIN ready : k < Len(sent) /\ ready[k] = sent[k + 1]
  BY BoundAssumption DEF Put, BufferMatchesPeer, NetworkMatchesPeer, Frame
<1>2. /\ last \in Nat /\ last >= next
      /\ \A k \in next..last : k \in DOMAIN ready
  BY <1>1 DEF StopsAt
<1>3. \A k \in next..upto : ready[k] \in Payload /\ ready[k] = sent[k + 1]
  <2> TAKE k \in next..upto
  <2>1. k \in DOMAIN ready /\ k + 1 \in 1..Len(sent)
    BY <1>1, <1>2
  <2>2. QED
    BY <1>1, <2>1, ElementOfSeq
<1> DEFINE run == Run(ready, next, upto)
<1>4. /\ run \in Seq(Payload)
      /\ Len(run) = upto - next + 1
      /\ \A i \in 1..(upto - next + 1) : run[i] = ready[next + i - 1]
  <2>1. upto >= next - 1
    BY <1>2
  <2>2. \A k \in next..upto : ready[k] \in Payload
    BY <1>3
  <2>3. next \in Nat
    OBVIOUS
  <2> HIDE DEF next
  <2>4. QED
    BY <2>1, <2>2, <2>3, RunType
<1>5. Len(delivered) = next
  BY DEF BufferMatchesPeer
<1>6. \A i \in 1..Len(run) : run[i] = sent[Len(delivered) + i]
  <2> HIDE DEF run
  <2> TAKE i \in 1..Len(run)
  <2>1. next + i - 1 \in next..upto /\ (next + i - 1) + 1 = Len(delivered) + i
    BY <1>2, <1>4, <1>5
  <2>2. QED
    BY <1>3, <1>4, <2>1
<1>7. upto + 1 <= Len(sent)
  BY <1>1, <1>2
<1>8. /\ Len(delivered \o run) = upto + 1
      /\ \A i \in 1..(upto + 1) : (delivered \o run)[i] = sent[i]
  <2> HIDE DEF run
  <2>1. Len(delivered) + Len(run) = upto + 1
    BY <1>2, <1>4, <1>5
  <2>2. \A i \in 1..Len(delivered) : delivered[i] = sent[i]
    BY DEF DeliveredPrefix
  <2>3. QED
    BY <1>4, <1>6, <1>7, <2>1, <2>2, PrefixExtends
<1>9. \A k \in DOMAIN After(last, ready) :
        k > last /\ k < Len(sent) /\ After(last, ready)[k] = sent[k + 1]
  BY <1>1 DEF After
<1>10. QED
  BY <1>7, <1>8, <1>9 DEF DrainAgrees

LEMMA DeliverStep ==
  ASSUME IInv, NEW f \in Frame, deliverOrdered(f)
  PROVE  IInv'
<1>1. TypeOK'
  BY TypeStep DEF Next, IInv
<1> SUFFICES WithinBound' /\ NetworkMatchesPeer' /\ DeliveredPrefix' /\ BufferMatchesPeer'
  BY <1>1 DEF IInv
<1>2. UNCHANGED <<sent, network>> /\ f \in network /\ session = "open"
  BY DEF deliverOrdered
<1>3. WithinBound' /\ NetworkMatchesPeer'
  BY <1>2 DEF IInv, WithinBound, NetworkMatchesPeer
<1>4. CASE DropStale(f)
  BY <1>2, <1>3, <1>4
     DEF IInv, DropStale, server, DeliveredPrefix, BufferMatchesPeer
<1>5. CASE BufferEarly(f)
  <2>1. DeliveredPrefix'
    BY <1>2, <1>5 DEF IInv, BufferEarly, DeliveredPrefix
  <2>2. f.orderingIndex < Len(sent) /\ f.payload = sent[f.orderingIndex + 1]
    BY <1>2 DEF IInv, NetworkMatchesPeer
  <2>3. BufferMatchesPeer'
    BY <1>2, <1>5, <2>2 DEF IInv, BufferEarly, BufferMatchesPeer, Put, TypeOK, Frame
  <2>4. QED
    BY <1>3, <2>1, <2>3
<1>6. CASE DeliverAndDrain(f)
  <2> DEFINE ready == Put(orderedFrameBuffer, f.orderingIndex, f.payload)
  <2>1. PICK last \in DOMAIN ready :
          /\ StopsAt(ready, last)
          /\ Drained(ready, last) \/ Threw(ready, last) \/ Closed(ready, last)
    BY <1>6 DEF DeliverAndDrain
  <2>2. f.orderingIndex = nextExpectedOrderingIndex
    BY <1>6 DEF DeliverAndDrain
  <2>3. ready = Put(orderedFrameBuffer, f.orderingIndex, f.payload)
    OBVIOUS
  <2> HIDE DEF ready
  <2>4. last \in Nat
    <3>1. \A k \in DOMAIN ready : k \in Nat
      BY <2>3, BoundAssumption DEF IInv, Put, TypeOK, Frame
    <3>2. QED
      BY <3>1
  <2> DEFINE before == last - 1
  <2>5. before \in Int /\ before + 1 = last
    BY <2>4
  <2> HIDE DEF before
  <2>6. DrainAgrees(ready, last, last) /\ DrainAgrees(ready, last, before)
    <3>1. last \in Int
      BY <2>4
    <3>2. DrainAgrees(ready, last, last)
      BY <1>2, <2>1, <2>2, <2>3, <3>1, DrainFacts
    <3>3. DrainAgrees(ready, last, before)
      BY <1>2, <2>1, <2>2, <2>3, <2>5, DrainFacts
    <3>4. QED
      BY <3>2, <3>3
  <2>7. CASE Drained(ready, last)
    <3> DEFINE extended == delivered \o Run(ready, nextExpectedOrderingIndex, last)
    <3>1. /\ Len(extended) = last + 1 /\ last + 1 <= Len(sent)
          /\ \A i \in 1..(last + 1) : extended[i] = sent[i]
          /\ \A k \in DOMAIN After(last, ready) :
               k > last /\ k < Len(sent) /\ After(last, ready)[k] = sent[k + 1]
      BY <2>6 DEF DrainAgrees
    <3>2. /\ delivered' = extended
          /\ nextExpectedOrderingIndex' = last + 1
          /\ orderedFrameBuffer' = After(last, ready)
      BY <2>7 DEF Drained
    <3> HIDE DEF extended
    <3>3. DeliveredPrefix'
      BY <1>2, <3>1, <3>2 DEF DeliveredPrefix
    <3>4. \A k \in DOMAIN After(last, ready) : k > last + 1
      <4>1. last + 1 \notin DOMAIN ready
        BY <2>1, <2>7 DEF StopsAt, Drained
      <4>2. \A k \in DOMAIN After(last, ready) : k \in Nat /\ k # last + 1 /\ k > last
        BY <4>1, <2>3, BoundAssumption DEF IInv, After, Put, TypeOK, Frame
      <4>3. QED
        BY <2>4, <4>2
    <3>5. BufferMatchesPeer'
      BY <1>2, <3>1, <3>2, <3>4 DEF BufferMatchesPeer
    <3>6. QED
      BY <1>3, <3>3, <3>5
  <2>8. CASE Threw(ready, last)
    <3> DEFINE extended == delivered \o Run(ready, nextExpectedOrderingIndex, last - 1)
    <3>1. /\ Len(extended) = last /\ last <= Len(sent)
          /\ \A i \in 1..last : extended[i] = sent[i]
          /\ \A k \in DOMAIN After(last, ready) :
               k > last /\ k < Len(sent) /\ After(last, ready)[k] = sent[k + 1]
      <4>1. before = last - 1
        BY <2>5
      <4>2. QED
        BY <2>5, <2>6, <4>1 DEF DrainAgrees
    <3>2. /\ delivered' = extended
          /\ nextExpectedOrderingIndex' = last
          /\ orderedFrameBuffer' = After(last, ready)
      BY <2>8 DEF Threw
    <3> HIDE DEF extended
    <3>3. DeliveredPrefix'
      BY <1>2, <3>1, <3>2 DEF DeliveredPrefix
    <3>4. BufferMatchesPeer'
      BY <1>2, <3>1, <3>2 DEF BufferMatchesPeer
    <3>5. QED
      BY <1>3, <3>3, <3>4
  <2>9. CASE Closed(ready, last)
    <3> DEFINE extended == delivered \o Run(ready, nextExpectedOrderingIndex, last)
    <3>1. /\ Len(extended) = last + 1 /\ last + 1 <= Len(sent)
          /\ \A i \in 1..(last + 1) : extended[i] = sent[i]
      BY <2>6 DEF DrainAgrees
    <3>2. delivered' = extended /\ session' # "open"
      BY <2>9 DEF Closed
    <3> HIDE DEF extended
    <3>3. DeliveredPrefix'
      BY <1>2, <3>1, <3>2 DEF DeliveredPrefix
    <3>4. BufferMatchesPeer'
      BY <3>2 DEF BufferMatchesPeer
    <3>5. QED
      BY <1>3, <3>3, <3>4
  <2>10. QED
    BY <2>1, <2>7, <2>8, <2>9
<1>7. QED
  BY <1>4, <1>5, <1>6 DEF deliverOrdered

LEMMA IInvStep ==
  ASSUME MaxSent <= IndexSpace, IInv, [Next]_vars
  PROVE  IInv'
<1>1. CASE \E p \in Payload : PeerSend(p)
  BY <1>1, PeerSendStep
<1>2. CASE \E f \in Frame : deliverOrdered(f)
  BY <1>2, DeliverStep
<1>3. CASE UNCHANGED vars
  BY <1>3 DEF vars, server, IInv, TypeOK, WithinBound, NetworkMatchesPeer,
              DeliveredPrefix, BufferMatchesPeer
<1>4. QED
  BY <1>1, <1>2, <1>3 DEF Next

\* As long as the peer sends no more ordered frames than there are indices,
\* the expected index counts the handled payloads and the buffer holds only
\* payloads still to come, each at the index the peer sent it under.
THEOREM OrderingCorrect ==
  ASSUME MaxSent <= IndexSpace
  PROVE  Spec => []BufferMatchesPeer
<1>1. Init => IInv
  BY IInvInit
<1>2. IInv /\ [Next]_vars => IInv'
  BY IInvStep
<1>3. IInv => BufferMatchesPeer
  BY DEF IInv
<1>4. QED
  BY <1>1, <1>2, <1>3, PTL DEF Spec

\* Nothing handled is ever taken back.
LEMMA DeliveredGrows ==
  ASSUME TypeOK, NEW f \in Frame, deliverOrdered(f)
  PROVE  Len(delivered') >= Len(delivered)
<1> USE DEF TypeOK
<1>1. CASE DropStale(f) \/ BufferEarly(f)
  BY <1>1 DEF DropStale, BufferEarly, server
<1>2. CASE DeliverAndDrain(f)
  <2>1. PICK ready, last, upto :
          /\ \A k \in DOMAIN ready : k \in Nat /\ ready[k] \in Payload
          /\ last \in DOMAIN ready /\ StopsAt(ready, last)
          /\ upto \in {last, last - 1}
          /\ delivered' = delivered \o Run(ready, nextExpectedOrderingIndex, upto)
    <3> DEFINE ready == Put(orderedFrameBuffer, f.orderingIndex, f.payload)
    <3>1. \A k \in DOMAIN ready : k \in Nat /\ ready[k] \in Payload
      BY BoundAssumption DEF Put, Frame
    <3>2. PICK last \in DOMAIN ready :
            /\ StopsAt(ready, last)
            /\ Drained(ready, last) \/ Threw(ready, last) \/ Closed(ready, last)
      BY <1>2 DEF DeliverAndDrain
    <3> HIDE DEF ready
    <3>3. QED
      BY <3>1, <3>2 DEF Drained, Threw, Closed
  <2>2. /\ last \in Nat /\ upto \in Int /\ upto >= nextExpectedOrderingIndex - 1
        /\ \A k \in nextExpectedOrderingIndex..upto : ready[k] \in Payload
    BY <2>1 DEF StopsAt
  <2>3. Run(ready, nextExpectedOrderingIndex, upto) \in Seq(Payload)
    BY <2>2, RunType
  <2>4. QED
    BY <2>1, <2>3, ConcatProperties
<1>3. QED
  BY <1>1, <1>2 DEF deliverOrdered

\* A step of the code hands over the next payloads of the peer's log, or none.
LEMMA ChannelStep ==
  ASSUME IInv, IInv', [Next]_vars
  PROVE  [Channel!Next]_(Channel!vars)
<1> USE DEF Channel!vars
<1>1. CASE \E p \in Payload : PeerSend(p)
  BY <1>1 DEF PeerSend, server, Channel!Next, Channel!Send
<1>2. CASE \E f \in Frame : deliverOrdered(f)
  <2>1. UNCHANGED sent
    BY <1>2 DEF deliverOrdered
  <2>2. CASE delivered' = delivered
    BY <2>1, <2>2
  <2>3. CASE delivered' # delivered
    <3> DEFINE n == Len(delivered') - Len(delivered)
    <3>1. /\ sent \in Seq(Payload) /\ delivered \in Seq(Payload) /\ delivered' \in Seq(Payload)
          /\ Len(delivered) \in Nat /\ Len(delivered') \in Nat
          /\ Len(delivered) <= Len(sent) /\ Len(delivered') <= Len(sent)
          /\ \A i \in 1..Len(delivered) : delivered[i] = sent[i]
          /\ \A i \in 1..Len(delivered') : delivered'[i] = sent[i]
      BY <2>1 DEF IInv, TypeOK, DeliveredPrefix
    <3>2. Len(delivered') >= Len(delivered)
      <4>1. TypeOK
        BY DEF IInv
      <4>2. QED
        BY <1>2, <4>1, DeliveredGrows
    <3>3. Len(delivered') # Len(delivered)
      BY <2>3, <3>1, SeqEqual
    <3>4. delivered' = SubSeq(sent, 1, Len(delivered'))
      <4>1. /\ SubSeq(sent, 1, Len(delivered')) \in Seq(Payload)
            /\ Len(SubSeq(sent, 1, Len(delivered'))) = Len(delivered')
            /\ \A i \in 1..Len(delivered') : SubSeq(sent, 1, Len(delivered'))[i] = sent[i]
        BY <3>1
      <4>2. QED
        BY <3>1, <4>1, SeqEqual
    <3>5. n \in 1..Len(sent) /\ Len(delivered) + n = Len(delivered')
      BY <3>1, <3>2, <3>3
    <3>6. Channel!Deliver(n)
      BY <2>1, <3>1, <3>4, <3>5 DEF Channel!Deliver
    <3>7. QED
      BY <3>5, <3>6 DEF Channel!Next
  <2>4. QED
    BY <2>2, <2>3
<1>3. CASE UNCHANGED vars
  BY <1>3 DEF vars, server
<1>4. QED
  BY <1>1, <1>2, <1>3 DEF Next

\* Ordered delivery implements the reliable channel: the game layer is handed
\* the peer's payloads complete, once each and in order.
THEOREM DeliveryImplementsChannel ==
  ASSUME MaxSent <= IndexSpace
  PROVE  Spec => ImplementsChannel
<1>1. Init => IInv
  BY IInvInit
<1>2. IInv /\ [Next]_vars => IInv'
  BY IInvStep
<1>3. Init => Channel!Init
  BY DEF Init, Channel!Init
<1>4. IInv /\ IInv' /\ [Next]_vars => [Channel!Next]_(Channel!vars)
  BY ChannelStep
<1>5. QED
  BY <1>1, <1>2, <1>3, <1>4, PTL DEF Spec, ImplementsChannel, Channel!Spec
-----------------------------------------------------------------------------
(* Nothing is forgotten. *)

\* A payload that was handled or waits in the buffer.
Held(p) == p \in Range(delivered) \/ p \in Range(orderedFrameBuffer)

\* What the drain finds ready is what the peer sent.
LEMMA ReadyIsSent ==
  ASSUME IInv, session = "open", NEW f \in network,
         NEW ready, ready = Put(orderedFrameBuffer, f.orderingIndex, f.payload)
  PROVE  \A k \in DOMAIN ready : k \in Nat /\ k + 1 \in DOMAIN sent /\ ready[k] = sent[k + 1]
<1> USE DEF IInv, TypeOK
<1>1. /\ f.orderingIndex \in Nat /\ f.orderingIndex < Len(sent)
      /\ f.payload = sent[f.orderingIndex + 1]
  BY BoundAssumption DEF NetworkMatchesPeer, Frame
<1>2. \A k \in DOMAIN orderedFrameBuffer :
        k \in Nat /\ k < Len(sent) /\ orderedFrameBuffer[k] = sent[k + 1]
  BY BoundAssumption DEF BufferMatchesPeer
<1>3. \A k \in DOMAIN ready : k \in Nat /\ k < Len(sent) /\ ready[k] = sent[k + 1]
  BY <1>1, <1>2 DEF Put
<1>4. QED
  BY <1>3

\* Unless a malformed batch is among what the peer sent, a frame that leaves the
\* session open takes nothing away: what was held is held, the frame's own
\* payload with it.
LEMMA NothingForgotten ==
  ASSUME IInv, NEW f \in Frame, deliverOrdered(f), session' = "open",
         \A i \in DOMAIN sent : sent[i] \notin Malformed
  PROVE  \A p : p = f.payload \/ Held(p) => Held(p)'
<1> USE DEF IInv, TypeOK
<1>1. f \in network /\ session = "open"
  BY DEF deliverOrdered
<1>2. /\ f.orderingIndex \in Nat /\ f.orderingIndex + 1 \in DOMAIN sent
      /\ f.payload = sent[f.orderingIndex + 1]
  BY <1>1, BoundAssumption DEF NetworkMatchesPeer, Frame
<1>3. CASE DropStale(f)
  <2>1. f.orderingIndex + 1 \in DOMAIN delivered /\ delivered[f.orderingIndex + 1] = f.payload
    BY <1>1, <1>2, <1>3 DEF DropStale, BufferMatchesPeer, DeliveredPrefix
  <2>2. f.payload \in Range(delivered)
    BY <2>1 DEF Range
  <2>3. QED
    BY <1>3, <2>2 DEF DropStale, server, Held
<1>4. CASE BufferEarly(f)
  <2> DEFINE k == f.orderingIndex
  <2>1. orderedFrameBuffer' = Put(orderedFrameBuffer, k, f.payload) /\ delivered' = delivered
    BY <1>4 DEF BufferEarly
  <2>2. k \in DOMAIN orderedFrameBuffer => orderedFrameBuffer[k] = f.payload
    BY <1>1, <1>2 DEF BufferMatchesPeer
  <2>3. /\ f.payload \in Range(Put(orderedFrameBuffer, k, f.payload))
        /\ \A p \in Range(orderedFrameBuffer) : p \in Range(Put(orderedFrameBuffer, k, f.payload))
    <3> HIDE DEF k
    <3>1. \A j \in DOMAIN orderedFrameBuffer :
            /\ j \in DOMAIN Put(orderedFrameBuffer, k, f.payload)
            /\ Put(orderedFrameBuffer, k, f.payload)[j] = orderedFrameBuffer[j]
      BY <2>2 DEF Put
    <3>2. /\ k \in DOMAIN Put(orderedFrameBuffer, k, f.payload)
          /\ Put(orderedFrameBuffer, k, f.payload)[k] = f.payload
      BY DEF Put
    <3>3. QED
      BY <3>1, <3>2 DEF Range
  <2>4. QED
    BY <2>1, <2>3 DEF Held
<1>5. CASE DeliverAndDrain(f)
  <2> DEFINE ready == Put(orderedFrameBuffer, f.orderingIndex, f.payload)
             next  == nextExpectedOrderingIndex
  <2>1. PICK last \in DOMAIN ready :
          /\ StopsAt(ready, last)
          /\ Drained(ready, last) \/ Threw(ready, last) \/ Closed(ready, last)
    BY <1>5 DEF DeliverAndDrain
  <2>2. f.orderingIndex = next
    BY <1>5 DEF DeliverAndDrain
  <2>3. \A k \in DOMAIN ready : k \in Nat /\ k + 1 \in DOMAIN sent /\ ready[k] = sent[k + 1]
    BY <1>1, ReadyIsSent
  <2>4. Drained(ready, last)
    <3>1. ready[last] \notin Malformed
      BY <2>3
    <3>2. ~Threw(ready, last)
      BY <3>1 DEF Threw
    <3>3. ~Closed(ready, last)
      BY DEF Closed
    <3>4. QED
      BY <2>1, <3>2, <3>3
  <2>5. /\ last \in Nat /\ last >= next /\ next \in Nat
        /\ \A k \in next..last : k \in DOMAIN ready
    BY <2>1, <2>3 DEF StopsAt
  <2>6. /\ DOMAIN orderedFrameBuffer \subseteq DOMAIN ready
        /\ \A j \in DOMAIN orderedFrameBuffer : ready[j] = orderedFrameBuffer[j] /\ j > next
    BY <1>1, <1>2, <2>2 DEF Put, BufferMatchesPeer
  <2>7. f.orderingIndex \in DOMAIN ready /\ ready[f.orderingIndex] = f.payload
    BY DEF Put
  <2> DEFINE run == Run(ready, next, last)
  <2>8. /\ run \in Seq(Payload) /\ Len(run) = last - next + 1
        /\ \A i \in 1..(last - next + 1) : run[i] = ready[next + i - 1]
    <3>1. \A k \in next..last : ready[k] \in Payload
      BY <2>3, <2>5, ElementOfSeq
    <3> HIDE DEF ready, next
    <3>2. QED
      BY <2>5, <3>1, RunType
  <2>9. delivered' = delivered \o run /\ orderedFrameBuffer' = After(last, ready)
    BY <2>4 DEF Drained
  <2> HIDE DEF ready, next
  <2>10. \A k \in DOMAIN ready : k >= next => ready[k] \in Range(delivered \o run) \/ ready[k] \in Range(After(last, ready))
    <3> SUFFICES ASSUME NEW k \in DOMAIN ready, k >= next
                 PROVE  ready[k] \in Range(delivered \o run) \/ ready[k] \in Range(After(last, ready))
      OBVIOUS
    <3>1. CASE k > last
      <4>1. k \in DOMAIN After(last, ready) /\ After(last, ready)[k] = ready[k]
        BY <3>1 DEF After
      <4>2. QED
        BY <4>1 DEF Range
    <3>2. CASE k <= last
      <4> DEFINE i == k - next + 1
      <4>1. i \in 1..Len(run) /\ run[i] = ready[k]
        <5>1. i \in 1..(last - next + 1) /\ next + i - 1 = k
          BY <2>3, <2>5, <3>2
        <5>2. QED
          BY <2>8, <5>1
      <4> HIDE DEF i, run
      <4>2. Len(delivered) + i \in DOMAIN (delivered \o run) /\ (delivered \o run)[Len(delivered) + i] = ready[k]
        BY <2>8, <4>1, ConcatProperties
      <4>3. QED
        BY <4>2 DEF Range
    <3>3. QED
      BY <2>3, <2>5, <3>1, <3>2
  <2>11. \A p \in Range(delivered) : p \in Range(delivered \o run)
    <3> HIDE DEF run
    <3>1. \A i \in DOMAIN delivered : i \in DOMAIN (delivered \o run) /\ (delivered \o run)[i] = delivered[i]
      BY <2>8, ConcatProperties
    <3>2. QED
      BY <3>1 DEF Range
  <2>12. \A p : p \in Range(orderedFrameBuffer) \/ p = f.payload =>
           \E k \in DOMAIN ready : k >= next /\ ready[k] = p
    <3>1. next >= next /\ \A j \in DOMAIN orderedFrameBuffer : j >= next
      BY <2>3, <2>5, <2>6
    <3>2. QED
      BY <2>2, <2>6, <2>7, <3>1 DEF Range
  <2>13. QED
    BY <2>9, <2>10, <2>11, <2>12 DEF Held
<1>6. QED
  BY <1>3, <1>4, <1>5 DEF deliverOrdered
=============================================================================
