---------------------------- MODULE RakNet_proofs ----------------------------
(***************************************************************************)
(* Proofs about datagrams.  DatagramAcks: for every window size, among     *)
(* them the 1000 of the code, as long as no sequence number is used twice. *)
(* Codecs and RakNetWire: what is written is what is read, for every value, *)
(* every header, every payload whose length fits and every place in a      *)
(* datagram.                                                               *)
(***************************************************************************)
EXTENDS DatagramAcks, RakNetWire, FiniteSetTheorems, SequenceTheorems, TLAPS

-----------------------------------------------------------------------------
(* Acknowledgements: DatagramAcks. *)

\* The peer does not go round the 24-bit field, and what is late or ahead is so
\* by less than what the server remembers and reports.
WindowFits == /\ MaxSent < SeqSpace
              /\ Lag + NackLimit <= SeqSpace
              /\ Lag <= Kept
              /\ Lag + Ahead <= NackLimit

\* The bookkeeping of the session against the history of what came in.
Bookkeeping ==
  /\ sentCount <= highest + Ahead + 1
  /\ (hasReceivedAny <=> received # {})
  /\ ~hasReceivedAny => highest = -1 /\ first = 0
  /\ hasReceivedAny => /\ first \in received
                       /\ highest \in received
                       /\ expectedSeq - 1 \in received
                       /\ expectedSeq - 1 > highest - Lag
  /\ \A n \in received : n <= highest
  /\ ackedSeqs \subseteq received

IInv == /\ TypeOK
        /\ Bookkeeping
        /\ ForgetsOnlyTheOld
        /\ NacksOnlyMissing
        /\ GapsReported

-----------------------------------------------------------------------------

LEMMA WireIsNumber ==
  ASSUME WindowFits, NEW n \in 0..(MaxSent - 1)
  PROVE  Wire(n) = n
BY WindowAssumption DEF WindowFits, Wire

\* What makes room: the smallest number, which Kept later ones have outlived.
LEMMA AckFacts ==
  ASSUME NEW n \in Nat, NEW h \in Int,
         ackedSeqs \subseteq Nat, IsFiniteSet(ackedSeqs), Cardinality(ackedSeqs) <= Kept,
         \A s \in ackedSeqs : s <= h,
         sendACKPacket(n)
  PROVE  /\ ackedSeqs' \subseteq ackedSeqs \cup {n}
         /\ IsFiniteSet(ackedSeqs') /\ Cardinality(ackedSeqs') <= Kept
         /\ \A x \in ackedSeqs : x \notin ackedSeqs' => x + Kept - 1 <= h
         /\ \A x \in ackedSeqs \cup {n} :
              x \notin ackedSeqs' => x + Kept <= h \/ x + Kept <= n
<1> DEFINE all == ackedSeqs \cup {n}
<1>1. /\ IsFiniteSet(all)
      /\ Cardinality(ackedSeqs) \in Nat
      /\ Cardinality(all) = IF n \in ackedSeqs THEN Cardinality(ackedSeqs)
                                               ELSE Cardinality(ackedSeqs) + 1
  BY FS_AddElement, FS_CardinalityType
<1>2. CASE Cardinality(all) <= Kept /\ ackedSeqs' = all
  BY <1>1, <1>2
<1>3. CASE /\ Cardinality(all) > Kept
           /\ \E low \in all : (\A s \in all : low <= s) /\ ackedSeqs' = all \ {low}
  <2>1. PICK low \in all : (\A s \in all : low <= s) /\ ackedSeqs' = all \ {low}
    BY <1>3
  <2>2. /\ n \notin ackedSeqs
        /\ Cardinality(ackedSeqs) = Kept
        /\ Cardinality(all) = Kept + 1
    BY <1>1, <1>3, WindowAssumption
  <2> HIDE DEF all
  <2>3. /\ IsFiniteSet(ackedSeqs')
        /\ Cardinality(ackedSeqs') = Kept
    <3>1. /\ IsFiniteSet(all \ {low})
          /\ Cardinality(all \ {low}) = Cardinality(all) - 1
      BY <1>1, <2>1, FS_RemoveElement
    <3>2. QED
      BY <2>1, <2>2, <3>1, WindowAssumption
  <2>4. low + Kept - 1 <= h
    <3>1. low \in Nat
      BY <2>1 DEF all
    <3>2. ackedSeqs \in SUBSET (low..h)
      BY <2>1, <3>1 DEF all
    <3>3. /\ IsFiniteSet(low..h)
          /\ Cardinality(low..h) = IF low > h THEN 0 ELSE h - low + 1
      BY <3>1, FS_Interval
    <3>4. Cardinality(ackedSeqs) <= Cardinality(low..h)
      BY <3>2, <3>3, FS_Subset
    <3>5. QED
      BY <2>2, <3>1, <3>3, <3>4, WindowAssumption
  <2>5. low + Kept <= h \/ low + Kept <= n
    <3> DEFINE top == IF n > h THEN n ELSE h
    <3>1. low \in Nat /\ top \in Int
      BY <2>1 DEF all
    <3>2. all \in SUBSET (low..top)
      BY <2>1, <3>1 DEF all
    <3> HIDE DEF top
    <3>3. /\ IsFiniteSet(low..top)
          /\ Cardinality(low..top) = IF low > top THEN 0 ELSE top - low + 1
      BY <3>1, FS_Interval
    <3>4. Cardinality(all) <= Cardinality(low..top)
      BY <3>2, <3>3, FS_Subset
    <3>5. low + Kept <= top
      BY <2>2, <3>1, <3>3, <3>4, WindowAssumption
    <3>6. QED
      BY <3>5 DEF top
  <2>6. QED
    BY <2>1, <2>3, <2>4, <2>5, WindowAssumption DEF all
<1>4. QED
  BY <1>2, <1>3 DEF sendACKPacket

LEMMA IInvInit == WindowFits /\ Init => IInv
<1> SUFFICES ASSUME WindowFits, Init PROVE IInv
  OBVIOUS
<1>1. IsFiniteSet({}) /\ Cardinality({}) = 0
  BY FS_EmptySet
<1>2. TypeOK
  <2>1. /\ 0 \in 0..MaxSent /\ 0 \in Sequence /\ -1 \in -1..(MaxSent - 1)
        /\ IsFiniteSet(ackedSeqs)
    BY <1>1, WindowAssumption DEF Init, Sequence
  <2>2. QED
    BY <2>1 DEF Init, TypeOK
<1>3. Bookkeeping
  BY WindowAssumption DEF Init, Bookkeeping
<1>4. ForgetsOnlyTheOld /\ NacksOnlyMissing /\ GapsReported
  BY <1>1, WindowAssumption DEF Init, ForgetsOnlyTheOld, NacksOnlyMissing, GapsReported
<1>5. QED
  BY <1>2, <1>3, <1>4 DEF IInv

LEMMA SendStep ==
  ASSUME IInv, SendDatagram
  PROVE  IInv'
<1>1. TypeOK'
  BY WindowAssumption DEF IInv, TypeOK, SendDatagram
<1>2. Bookkeeping'
  BY WindowAssumption DEF IInv, TypeOK, Bookkeeping, SendDatagram
<1>3. ForgetsOnlyTheOld' /\ NacksOnlyMissing' /\ GapsReported'
  BY DEF IInv, SendDatagram, ForgetsOnlyTheOld, NacksOnlyMissing, GapsReported, Wire
<1>4. QED
  BY <1>1, <1>2, <1>3 DEF IInv

\* What one FrameSet reports: exactly the numbers from the expected one up to
\* its own that ackedSeqs does not hold; nothing if it came in late.
LEMMA MissingFacts ==
  ASSUME WindowFits, IInv, NEW n \in 0..(MaxSent - 1), n < sentCount, n > highest - Lag,
         NEW acked
  PROVE  Missing(n, acked) = IF hasReceivedAny
                             THEN {m \in expectedSeq..(n - 1) : m \notin acked}
                             ELSE {}
<1>1. CASE ~hasReceivedAny
  BY <1>1 DEF Missing
<1>2. CASE hasReceivedAny
  <2>1. /\ expectedSeq \in Nat /\ highest \in Int
        /\ expectedSeq <= highest + 1 /\ expectedSeq > highest - Lag + 1
        /\ n <= highest + Ahead
    BY <1>2, WindowAssumption DEF IInv, TypeOK, Bookkeeping, Sequence
  <2>2. Wire(n) = n
    BY WireIsNumber
  <2>3. CASE n >= expectedSeq
    <3>1. Minus(n, expectedSeq) = n - expectedSeq /\ n - expectedSeq < NackLimit
      BY <2>1, <2>3, WindowAssumption DEF Minus, WindowFits
    <3>2. \A j \in 0..(n - expectedSeq - 1) : Plus(expectedSeq, j) = expectedSeq + j
      BY <2>1, <2>3, WindowAssumption DEF Plus, WindowFits
    <3>3. Missing(n, acked) =
            {n - (n - expectedSeq) + i :
               i \in {j \in 0..(n - expectedSeq - 1) : expectedSeq + j \notin acked}}
      BY <1>2, <2>2, <3>1, <3>2 DEF Missing
    <3>4. ASSUME NEW m \in expectedSeq..(n - 1), m \notin acked
          PROVE  m \in Missing(n, acked)
      <4>1. /\ m - expectedSeq \in 0..(n - expectedSeq - 1)
            /\ expectedSeq + (m - expectedSeq) = m
            /\ n - (n - expectedSeq) + (m - expectedSeq) = m
        BY <2>1
      <4>2. QED
        BY <3>3, <3>4, <4>1
    <3>5. ASSUME NEW m \in Missing(n, acked)
          PROVE  m \in expectedSeq..(n - 1) /\ m \notin acked
      <4>1. PICK i \in 0..(n - expectedSeq - 1) :
              expectedSeq + i \notin acked /\ m = n - (n - expectedSeq) + i
        BY <3>3
      <4>2. m = expectedSeq + i
        BY <2>1, <4>1
      <4>3. QED
        BY <2>1, <4>1, <4>2
    <3>6. QED
      BY <1>2, <3>4, <3>5
  <2>4. CASE n < expectedSeq
    <3>1. Minus(n, expectedSeq) >= NackLimit
      BY <2>1, <2>4, WindowAssumption DEF Minus, WindowFits
    <3>2. expectedSeq..(n - 1) = {}
      BY <2>1, <2>4
    <3>3. Missing(n, acked) = {}
      <4>1. NackLimit \in Nat /\ Minus(n, expectedSeq) \in Int
        BY <2>1, WindowAssumption DEF Minus
      <4>2. QED
        BY <2>2, <3>1, <4>1 DEF Missing
    <3>4. QED
      BY <1>2, <3>2, <3>3
  <2>5. QED
    BY <2>1, <2>3, <2>4
<1>3. QED
  BY <1>1, <1>2 DEF IInv, TypeOK

LEMMA ReceiveStep ==
  ASSUME WindowFits, IInv, NEW n \in 0..(MaxSent - 1), ReceiveDatagram(n)
  PROVE  IInv'
<1>1. /\ n \in Nat /\ highest \in Int /\ highest' \in Int /\ expectedSeq \in Nat
      /\ n < sentCount /\ n > highest - Lag
      /\ highest' = (IF n > highest THEN n ELSE highest)
      /\ received' = received \cup {n}
      /\ received \subseteq Nat
      /\ \A m \in received : m <= highest
      /\ hasReceivedAny \in BOOLEAN
  BY DEF IInv, TypeOK, Bookkeeping, ReceiveDatagram, Sequence
<1>2. Wire(n) = n /\ Plus(Wire(n), 1) = n + 1
  BY WireIsNumber, WindowAssumption DEF Plus, WindowFits
<1>3. ackedSeqs \subseteq received /\ ackedSeqs \subseteq Nat
  BY <1>1 DEF IInv, Bookkeeping
<1>4. /\ ackedSeqs' \subseteq ackedSeqs \cup {n}
      /\ IsFiniteSet(ackedSeqs') /\ Cardinality(ackedSeqs') <= Kept
      /\ \A x \in ackedSeqs : x \notin ackedSeqs' => x + Kept - 1 <= highest
      /\ \A x \in ackedSeqs \cup {n} :
           x \notin ackedSeqs' => x + Kept <= highest \/ x + Kept <= n
  <2>1. /\ IsFiniteSet(ackedSeqs) /\ Cardinality(ackedSeqs) <= Kept
        /\ \A s \in ackedSeqs : s <= highest
        /\ sendACKPacket(n)
    BY <1>1, <1>2, <1>3 DEF IInv, TypeOK, ForgetsOnlyTheOld, ReceiveDatagram
  <2>2. QED
    BY <1>1, <1>3, <2>1, AckFacts
<1>5. lastNacks' = IF hasReceivedAny
                   THEN {m \in expectedSeq..(n - 1) : m \notin ackedSeqs'}
                   ELSE {}
  BY <1>1, MissingFacts DEF ReceiveDatagram
<1>6. hasReceivedAny => /\ highest \in received /\ first \in received
                        /\ expectedSeq <= highest + 1
                        /\ expectedSeq > highest - Lag + 1
  BY <1>1, WindowAssumption DEF IInv, TypeOK, Bookkeeping
<1>7. TypeOK'
  <2>1. lastNacks' \in SUBSET (0..(MaxSent - 1))
    BY <1>1, <1>5, WindowAssumption
  <2>2. nacked' \in SUBSET (0..(MaxSent - 1))
    BY <2>1 DEF IInv, TypeOK, ReceiveDatagram
  <2>3. ackedSeqs' \in SUBSET Sequence /\ n + 1 \in Sequence
    BY <1>1, <1>2, <1>4, WindowAssumption DEF IInv, TypeOK, Sequence, WindowFits
  <2>4. QED
    BY <1>1, <1>2, <1>4, <2>1, <2>2, <2>3, WindowAssumption
       DEF IInv, TypeOK, ReceiveDatagram
<1>8. Bookkeeping'
  <2>1. sentCount' <= highest' + Ahead + 1
    BY <1>1, WindowAssumption DEF IInv, TypeOK, Bookkeeping, ReceiveDatagram
  <2>2. (hasReceivedAny' <=> received' # {}) /\ hasReceivedAny'
    BY <1>1 DEF ReceiveDatagram
  <2>3. first' \in received' /\ highest' \in received'
    BY <1>1, <1>6, WindowAssumption DEF IInv, TypeOK, Bookkeeping, ReceiveDatagram
  <2>4. expectedSeq' = n + 1
    BY <1>2 DEF ReceiveDatagram
  <2>5. expectedSeq' - 1 \in received' /\ expectedSeq' - 1 > highest' - Lag
    BY <1>1, <2>4, WindowAssumption
  <2>6. \A m \in received' : m <= highest'
    BY <1>1
  <2>7. ackedSeqs' \subseteq received'
    BY <1>1, <1>3, <1>4
  <2>8. QED
    BY <2>1, <2>2, <2>3, <2>5, <2>6, <2>7 DEF Bookkeeping
<1>9. ForgetsOnlyTheOld'
  <2>1. ASSUME NEW m \in received', Wire(m) \notin ackedSeqs'
        PROVE  m + Kept <= highest'
    <3>1. m \in 0..(MaxSent - 1) /\ Wire(m) = m
      BY <1>1, WireIsNumber DEF IInv, TypeOK
    <3>2. CASE m \in ackedSeqs \cup {n}
      BY <1>1, <1>4, <2>1, <3>1, <3>2, WindowAssumption
    <3>3. CASE m \notin ackedSeqs \cup {n}
      <4>1. m + Kept <= highest
        BY <1>1, <3>1, <3>3 DEF IInv, ForgetsOnlyTheOld
      <4>2. QED
        BY <1>1, <3>1, <4>1, WindowAssumption
    <3>4. QED
      BY <3>2, <3>3
  <2>2. QED
    BY <1>4, <2>1 DEF ForgetsOnlyTheOld, Wire
<1>10. NacksOnlyMissing'
  <2> SUFFICES ASSUME NEW m \in lastNacks', m \in received' PROVE FALSE
    BY DEF NacksOnlyMissing
  <2>1. /\ hasReceivedAny
        /\ m \in Nat /\ m >= expectedSeq /\ m < n /\ m \notin ackedSeqs'
    BY <1>1, <1>5
  <2>2. m \in received /\ m \in 0..(MaxSent - 1)
    BY <1>1, <2>1 DEF IInv, TypeOK
  <2>3. m > highest - Lag + 1
    BY <1>1, <1>6, <2>1, WindowAssumption
  <2>4. CASE m \in ackedSeqs
    <3>1. m + Kept - 1 <= highest
      BY <1>4, <2>1, <2>4
    <3>2. QED
      BY <1>1, <2>1, <2>3, <3>1, WindowAssumption DEF WindowFits
  <2>5. CASE m \notin ackedSeqs
    <3>1. m + Kept <= highest
      BY <2>2, <2>5, WireIsNumber DEF IInv, ForgetsOnlyTheOld
    <3>2. QED
      BY <1>1, <2>1, <2>3, <3>1, WindowAssumption DEF WindowFits
  <2>6. QED
    BY <2>4, <2>5
<1>11. GapsReported'
  <2> SUFFICES ASSUME NEW k \in first'..highest' PROVE k \in received' \cup nacked'
    BY DEF GapsReported
  <2>1. nacked' = nacked \cup lastNacks'
    BY DEF ReceiveDatagram
  <2>2. CASE ~hasReceivedAny
    <3>1. first' = n /\ highest = -1
      BY <2>2 DEF IInv, Bookkeeping, ReceiveDatagram
    <3>2. QED
      BY <1>1, <3>1
  <2>3. CASE hasReceivedAny
    <3>1. first' = first /\ first \in Nat /\ k \in Nat
      BY <1>1, <2>3 DEF IInv, TypeOK, ReceiveDatagram
    <3>2. CASE k <= highest
      BY <1>1, <2>1, <3>1, <3>2 DEF IInv, GapsReported
    <3>3. CASE k > highest
      <4>1. k <= n /\ (k = n \/ k \in expectedSeq..(n - 1))
        BY <1>1, <1>6, <2>3, <3>1, <3>3
      <4>2. k \notin ackedSeqs \/ k = n
        BY <1>1, <1>3, <3>1, <3>3
      <4>3. QED
        BY <1>1, <1>4, <1>5, <2>1, <2>3, <4>1, <4>2
    <3>4. QED
      BY <1>1, <3>1, <3>2, <3>3
  <2>4. QED
    BY <1>1, <2>2, <2>3
<1>12. QED
  BY <1>7, <1>8, <1>9, <1>10, <1>11 DEF IInv

LEMMA IInvStep ==
  ASSUME WindowFits, IInv, [Next]_vars
  PROVE  IInv'
<1>1. CASE SendDatagram
  BY <1>1, SendStep
<1>2. CASE \E n \in 0..(MaxSent - 1) : ReceiveDatagram(n)
  BY <1>2, ReceiveStep
<1>3. CASE UNCHANGED vars
  BY <1>3 DEF vars, IInv, TypeOK, Bookkeeping, ForgetsOnlyTheOld, NacksOnlyMissing,
              GapsReported, Wire
<1>4. QED
  BY <1>1, <1>2, <1>3 DEF Next

\* For every window that fits the code's limits of 1000 numbers, a session
\* reports a datagram missing only if it has not come in, and overlooks none.
THEOREM AcksCorrect ==
  ASSUME WindowFits
  PROVE  Spec => [](TypeOK /\ NacksOnlyMissing /\ GapsReported /\ ForgetsOnlyTheOld)
<1>1. Init => IInv
  BY IInvInit
<1>2. IInv /\ [Next]_vars => IInv'
  BY IInvStep
<1>3. IInv => TypeOK /\ NacksOnlyMissing /\ GapsReported /\ ForgetsOnlyTheOld
  BY DEF IInv
<1>4. QED
  BY <1>1, <1>2, <1>3, PTL DEF Spec

-----------------------------------------------------------------------------
(* Integers and strings: Codecs. *)

UInt24 == {v \in Nat : v < 16777216}
UInt32 == {v \in Nat : v < 4294967296}
Int32  == {v \in Int : -2147483648 <= v /\ v < 2147483648}

\* Where a written value starts in a buffer.
At(buf, offset, bytes) ==
  /\ offset + Len(bytes) <= Len(buf)
  /\ \A i \in 1..Len(bytes) : buf[offset + i] = bytes[i]

LEMMA By256 ==
  ASSUME NEW v \in Nat
  PROVE  v \div 256 \in Nat /\ v % 256 \in 0..255 /\ v = 256 * (v \div 256) + (v % 256)
BY SMT

LEMMA By128 ==
  ASSUME NEW v \in Nat
  PROVE  v \div 128 \in Nat /\ v % 128 \in 0..127 /\ v = 128 * (v \div 128) + (v % 128)
BY SMT

LEMMA Below128 ==
  ASSUME NEW v \in Nat, v < 128
  PROVE  v % 128 = v
BY SMT

\* The digits of a number below 2^32, to the base of 256 and of 128, make it up.
LEMMA ThreeShifts ==
  ASSUME NEW v \in Nat, v < 4294967296, NEW a \in Nat, NEW b \in Nat, NEW c \in Nat,
         a = v \div 256, b = a \div 256, c = b \div 256
  PROVE  (v % 256) + 256 * (a % 256) + 65536 * (b % 256) + 16777216 * (c % 256) = v
<1>1. c < 256
  BY SMT
<1>2. c % 256 = c
  BY <1>1, SMT
<1>3. v = 256 * a + (v % 256) /\ a = 256 * b + (a % 256) /\ b = 256 * c + (b % 256)
  BY By256
<1>4. v % 256 \in Nat /\ a % 256 \in Nat /\ b % 256 \in Nat
  BY By256, SMT
<1> QED
  BY <1>2, <1>3, <1>4, SMT

LEMMA Digits8 ==
  ASSUME NEW v \in UInt32
  PROVE  (v % 256) + 256 * (Shift8(v) % 256) + 65536 * (Shift8(Shift8(v)) % 256)
           + 16777216 * (Shift8(Shift8(Shift8(v))) % 256) = v
<1>1. v \in Nat /\ v < 4294967296
  BY DEF UInt32
<1>2. /\ Shift8(v) \in Nat /\ Shift8(Shift8(v)) \in Nat
      /\ Shift8(Shift8(Shift8(v))) \in Nat
  BY <1>1, By256 DEF Shift8
<1> QED
  BY <1>1, <1>2, ThreeShifts DEF Shift8

LEMMA FourRounds ==
  ASSUME NEW v \in Nat, v < 4294967296,
         NEW a \in Nat, NEW b \in Nat, NEW c \in Nat, NEW d \in Nat,
         a = v \div 128, b = a \div 128, c = b \div 128, d = c \div 128
  PROVE  d < 16 /\ d % 128 = d /\ d % 16 = d
<1>1. d < 16
  BY SMT
<1> QED
  BY <1>1, SMT

LEMMA Digits7 ==
  ASSUME NEW v \in UInt32
  PROVE  /\ v \in Nat /\ Round1(v) \in Nat /\ v = 128 * Round1(v) + (v % 128)
         /\ Round2(v) \in Nat /\ Round1(v) = 128 * Round2(v) + (Round1(v) % 128)
         /\ Round3(v) \in Nat /\ Round2(v) = 128 * Round3(v) + (Round2(v) % 128)
         /\ Round4(v) \in Nat /\ Round3(v) = 128 * Round4(v) + (Round3(v) % 128)
         /\ Round4(v) < 16 /\ Round4(v) % 128 = Round4(v) /\ Round4(v) % 16 = Round4(v)
<1>0. v \in Nat /\ v < 4294967296
  BY DEF UInt32
<1>1. Round1(v) \in Nat /\ v = 128 * Round1(v) + (v % 128)
  BY <1>0, By128 DEF Round1
<1>2. Round2(v) \in Nat /\ Round1(v) = 128 * Round2(v) + (Round1(v) % 128)
  BY <1>1, By128 DEF Round2
<1>3. Round3(v) \in Nat /\ Round2(v) = 128 * Round3(v) + (Round2(v) % 128)
  BY <1>2, By128 DEF Round3
<1>4. Round4(v) \in Nat /\ Round3(v) = 128 * Round4(v) + (Round3(v) % 128)
  BY <1>3, By128 DEF Round4
<1>5. /\ Round1(v) = v \div 128 /\ Round2(v) = Round1(v) \div 128
      /\ Round3(v) = Round2(v) \div 128 /\ Round4(v) = Round3(v) \div 128
  BY DEF Round1, Round2, Round3, Round4
<1>6. Round4(v) < 16 /\ Round4(v) % 128 = Round4(v) /\ Round4(v) % 16 = Round4(v)
  BY <1>0, <1>1, <1>2, <1>3, <1>4, <1>5, FourRounds
<1> QED
  BY <1>0, <1>1, <1>2, <1>3, <1>4, <1>6

LEMMA LengthInRange ==
  ASSUME NEW v \in UInt32
  PROVE  VarIntLength(v) \in 1..5 /\ Len(writeVarInt(v)) = VarIntLength(v)
BY SMT DEF VarIntLength, writeVarInt

LEMMA GroupInRange ==
  ASSUME NEW v \in UInt32, NEW i \in 1..5
  PROVE  Group(v, i) \in 0..127
<1> DEFINE w == IF i = 1 THEN v ELSE IF i = 2 THEN Round1(v) ELSE IF i = 3 THEN Round2(v)
                ELSE IF i = 4 THEN Round3(v) ELSE Round4(v)
<1>1. w \in Nat
  BY Digits7
<1>2. Group(v, i) = w % 128
  BY DEF Group
<1> QED
  BY <1>1, <1>2, By128

\* The groups of v put together, as many as are written, are v.
LEMMA GroupsMakeUp ==
  ASSUME NEW v \in UInt32
  PROVE  LET n == VarIntLength(v)
         IN  Group(v, 1)
             + (IF n >= 2 THEN 128 * Group(v, 2) ELSE 0)
             + (IF n >= 3 THEN 16384 * Group(v, 3) ELSE 0)
             + (IF n >= 4 THEN 2097152 * Group(v, 4) ELSE 0)
             + (IF n >= 5 THEN 268435456 * (Group(v, 5) % 16) ELSE 0) = v
<1> USE Digits7
<1>1. CASE v < 128
  <2>1. VarIntLength(v) = 1 /\ Group(v, 1) = v
    BY <1>1, Below128 DEF VarIntLength, Group
  <2> QED
    BY <2>1
<1>2. CASE ~(v < 128) /\ Round1(v) < 128
  <2>1. VarIntLength(v) = 2
    BY <1>2 DEF VarIntLength
  <2>2. Group(v, 1) = v % 128 /\ Group(v, 2) = Round1(v)
    BY <1>2, Below128 DEF Group
  <2> QED
    BY <2>1, <2>2, SMT
<1>3. CASE ~(v < 128) /\ ~(Round1(v) < 128) /\ Round2(v) < 128
  <2>1. VarIntLength(v) = 3
    BY <1>3 DEF VarIntLength
  <2>2. /\ Group(v, 1) = v % 128 /\ Group(v, 2) = Round1(v) % 128
        /\ Group(v, 3) = Round2(v) % 128
    BY DEF Group
  <2>3. Round2(v) % 128 = Round2(v)
    BY <1>3, Below128
  <2> QED
    BY <2>1, <2>2, <2>3, SMT
<1>4. CASE ~(v < 128) /\ ~(Round1(v) < 128) /\ ~(Round2(v) < 128) /\ Round3(v) < 128
  <2>1. VarIntLength(v) = 4
    BY <1>4 DEF VarIntLength
  <2>2. /\ Group(v, 1) = v % 128 /\ Group(v, 2) = Round1(v) % 128
        /\ Group(v, 3) = Round2(v) % 128 /\ Group(v, 4) = Round3(v)
    BY <1>4, Below128 DEF Group
  <2> QED
    BY <2>1, <2>2, SMT
<1>5. CASE ~(v < 128) /\ ~(Round1(v) < 128) /\ ~(Round2(v) < 128) /\ ~(Round3(v) < 128)
  <2>1. VarIntLength(v) = 5
    BY <1>5 DEF VarIntLength
  <2>2. /\ Group(v, 1) = v % 128 /\ Group(v, 2) = Round1(v) % 128
        /\ Group(v, 3) = Round2(v) % 128 /\ Group(v, 4) = Round3(v) % 128
        /\ Group(v, 5) = Round4(v)
    BY <1>5, Below128 DEF Group
  <2> QED
    BY <2>1, <2>2, SMT
<1> QED
  BY <1>1, <1>2, <1>3, <1>4, <1>5

LEMMA TopBit ==
  ASSUME NEW g \in 0..127
  PROVE  (128 + g) % 128 = g /\ g % 128 = g /\ g < 128 /\ 128 + g >= 128
BY SMT

LEMMA OneOrOther ==
  ASSUME NEW b \in Byte
  PROVE  ~(b >= 128 /\ b < 128)
BY SMT DEF Byte

\* Where a varint ends is where the reader stops.
LEMMA OneEnd ==
  ASSUME NEW buf \in Seq(Byte), NEW offset \in Nat, NEW n \in 1..5, EndsAfter(buf, offset, n)
  PROVE  readVarInt(buf, offset) = [value |-> Shifted(buf, offset, n), offset |-> offset + n]
<1>1. \A k \in 1..5 : EndsAfter(buf, offset, k) => k = n
  <2> SUFFICES ASSUME NEW k \in 1..5, EndsAfter(buf, offset, k), k # n
               PROVE  FALSE
    OBVIOUS
  <2>1. CASE k < n
    <3>1. k \in 1..(n - 1)
      BY <2>1, SMT
    <3>2. buf[offset + k] >= 128 /\ buf[offset + k] < 128
      BY <3>1 DEF EndsAfter
    <3>3. offset + k \in 1..Len(buf)
      BY SMT DEF EndsAfter, need
    <3>4. buf[offset + k] \in Byte
      BY <3>3, ElementOfSeq
    <3> QED
      BY <3>2, <3>4, OneOrOther
  <2>2. CASE n < k
    <3>1. n \in 1..(k - 1)
      BY <2>2, SMT
    <3>2. buf[offset + n] >= 128 /\ buf[offset + n] < 128
      BY <3>1 DEF EndsAfter
    <3>3. offset + n \in 1..Len(buf)
      BY SMT DEF EndsAfter, need
    <3>4. buf[offset + n] \in Byte
      BY <3>3, ElementOfSeq
    <3> QED
      BY <3>2, <3>4, OneOrOther
  <2> QED
    BY <2>1, <2>2, SMT
<1>2. (CHOOSE k \in 1..5 : EndsAfter(buf, offset, k)) = n
  BY <1>1
<1> QED
  BY <1>2 DEF readVarInt

\* A written varint is read back, whatever follows it in the buffer.
THEOREM VarIntRoundTrip ==
  ASSUME NEW v \in UInt32, NEW buf \in Seq(Byte), NEW offset \in Nat,
         At(buf, offset, writeVarInt(v))
  PROVE  readVarInt(buf, offset) = [value |-> v, offset |-> offset + VarIntLength(v)]
<1>1. VarIntLength(v) \in 1..5 /\ Len(writeVarInt(v)) = VarIntLength(v)
  BY LengthInRange
<1> SUFFICES ASSUME NEW n \in 1..5, n = VarIntLength(v)
             PROVE  readVarInt(buf, offset) = [value |-> v, offset |-> offset + n]
  BY <1>1
<1>2. \A i \in 1..5 : Group(v, i) \in 0..127
  BY GroupInRange
<1>3. \A i \in 1..n : writeVarInt(v)[i] = IF i < n THEN 128 + Group(v, i) ELSE Group(v, i)
  BY DEF writeVarInt
<1>4. \A i \in 1..n : buf[offset + i] = IF i < n THEN 128 + Group(v, i) ELSE Group(v, i)
  BY <1>1, <1>3 DEF At
<1>5. offset + n <= Len(buf) /\ Len(buf) \in Nat
  BY <1>1 DEF At
<1>6. EndsAfter(buf, offset, n)
  <2>1. need(buf, offset, n)
    BY <1>5, SMT DEF need
  <2>2. buf[offset + n] < 128
    <3>1. buf[offset + n] = Group(v, n)
      BY <1>4, SMT
    <3> QED
      BY <3>1, <1>2, TopBit
  <2>3. ASSUME NEW i \in 1..(n - 1)
        PROVE  buf[offset + i] >= 128
    <3>1. i \in 1..n /\ i \in 1..5 /\ i < n
      BY SMT
    <3>2. buf[offset + i] = 128 + Group(v, i) /\ Group(v, i) \in 0..127
      BY <3>1, <1>2, <1>4
    <3> QED
      BY <3>2, TopBit
  <2> QED
    BY <2>1, <2>2, <2>3 DEF EndsAfter
<1>7. ASSUME NEW i \in 1..n
      PROVE  buf[offset + i] % 128 = Group(v, i) /\ (i = n => buf[offset + i] = Group(v, i))
  <2>0. i \in 1..5
    BY SMT
  <2>1. Group(v, i) \in 0..127
    BY <2>0, <1>2
  <2>2. buf[offset + i] = IF i < n THEN 128 + Group(v, i) ELSE Group(v, i)
    BY <1>4
  <2>3. (128 + Group(v, i)) % 128 = Group(v, i) /\ Group(v, i) % 128 = Group(v, i)
    BY <2>1, TopBit
  <2> QED
    BY <2>2, <2>3, SMT
<1>8. Shifted(buf, offset, n) = v
  <2>1. n >= 1 => buf[offset + 1] % 128 = Group(v, 1)
    BY <1>7, SMT
  <2>2. n >= 2 => buf[offset + 2] % 128 = Group(v, 2)
    BY <1>7, SMT
  <2>3. n >= 3 => buf[offset + 3] % 128 = Group(v, 3)
    BY <1>7, SMT
  <2>4. n >= 4 => buf[offset + 4] % 128 = Group(v, 4)
    BY <1>7, SMT
  <2>5. n >= 5 => buf[offset + 5] = Group(v, 5)
    BY <1>7, SMT
  <2>6. n >= 1
    BY SMT
  <2>7. Shifted(buf, offset, n)
          = Group(v, 1)
            + (IF n >= 2 THEN 128 * Group(v, 2) ELSE 0)
            + (IF n >= 3 THEN 16384 * Group(v, 3) ELSE 0)
            + (IF n >= 4 THEN 2097152 * Group(v, 4) ELSE 0)
            + (IF n >= 5 THEN 268435456 * (Group(v, 5) % 16) ELSE 0)
    BY <2>1, <2>2, <2>3, <2>4, <2>5, <2>6 DEF Shifted
  <2> QED
    BY <2>7, GroupsMakeUp
<1> QED
  BY <1>6, <1>8, OneEnd

\* So is one that is not all there: a cut varint is out_of_range, not a number.
THEOREM CutVarIntRefused ==
  ASSUME NEW v \in UInt32, NEW buf \in Seq(Byte), NEW offset \in Nat,
         Len(buf) < offset + VarIntLength(v),
         \A i \in 1..VarIntLength(v) :
           offset + i <= Len(buf) => buf[offset + i] = writeVarInt(v)[i]
  PROVE  readVarInt(buf, offset) = OutOfRange
<1>1. VarIntLength(v) \in 1..5
  BY LengthInRange
<1> SUFFICES ASSUME NEW n \in 1..5, n = VarIntLength(v)
             PROVE  readVarInt(buf, offset) = OutOfRange
  BY <1>1
<1>2. ASSUME NEW k \in 1..5, EndsAfter(buf, offset, k)
      PROVE  FALSE
  <2>1. offset + k <= Len(buf) /\ buf[offset + k] < 128 /\ Len(buf) \in Nat
    BY <1>2, SMT DEF EndsAfter, need
  <2>2. k \in 1..n /\ k < n
    BY <2>1, SMT
  <2>3. buf[offset + k] = 128 + Group(v, k)
    BY <2>1, <2>2 DEF writeVarInt
  <2>4. Group(v, k) \in 0..127
    BY GroupInRange
  <2>5. 128 + Group(v, k) >= 128
    BY <2>4, TopBit
  <2>6. offset + k \in 1..Len(buf)
    BY <2>1, SMT
  <2>7. buf[offset + k] \in Byte
    BY <2>6, ElementOfSeq
  <2> QED
    BY <2>1, <2>3, <2>5, <2>7, OneOrOther
<1> QED
  BY <1>2 DEF readVarInt

LEMMA ZigZagArithmetic ==
  ASSUME NEW v \in Int32
  PROVE  ToZigZag(v) \in UInt32 /\ FromZigZag(ToZigZag(v)) = v
<1>1. v \in Int /\ -2147483648 <= v /\ v < 2147483648
  BY DEF Int32
<1>2. CASE v >= 0
  <2>1. ToZigZag(v) = 2 * v
    BY <1>2 DEF ToZigZag
  <2>2. 2 * v \in Nat /\ 2 * v < 4294967296
    BY <1>1, <1>2, SMT
  <2>3. (2 * v) % 2 = 0 /\ (2 * v) \div 2 = v
    BY <1>1, <1>2, SMT
  <2> QED
    BY <2>1, <2>2, <2>3 DEF UInt32, FromZigZag
<1>3. CASE v < 0
  <2>1. ToZigZag(v) = -2 * v - 1
    BY <1>1, <1>3, SMT DEF ToZigZag
  <2>2. -2 * v - 1 \in Nat /\ -2 * v - 1 < 4294967296
    BY <1>1, <1>3, SMT
  <2>3. (-2 * v - 1) % 2 = 1 /\ (-2 * v - 1) \div 2 = -v - 1
    BY <1>1, <1>3, SMT
  <2>4. -(-v - 1) - 1 = v
    BY <1>1, SMT
  <2> QED
    BY <2>1, <2>2, <2>3, <2>4, SMT DEF UInt32, FromZigZag
<1> QED
  BY <1>1, <1>2, <1>3, SMT

\* Negative coordinates and ids survive their unsigned encoding, at both ends
\* of the range.
THEOREM ZigZagRoundTrip ==
  ASSUME NEW v \in Int32, NEW buf \in Seq(Byte), NEW offset \in Nat,
         At(buf, offset, writeZigZag32(v))
  PROVE  readZigZag32(buf, offset) = [value |-> v, offset |-> offset + VarIntLength(ToZigZag(v))]
<1>1. ToZigZag(v) \in UInt32 /\ FromZigZag(ToZigZag(v)) = v
  BY ZigZagArithmetic
<1>2. readVarInt(buf, offset)
        = [value |-> ToZigZag(v), offset |-> offset + VarIntLength(ToZigZag(v))]
  BY <1>1, VarIntRoundTrip DEF writeZigZag32
<1>3. readVarInt(buf, offset) # OutOfRange
  <2>1. ToZigZag(v) # -1
    BY <1>1, SMT DEF UInt32
  <2> QED
    BY <1>2, <2>1 DEF OutOfRange
<1> QED
  BY <1>1, <1>2, <1>3 DEF readZigZag32

LEMMA BytesOfGroups ==
  ASSUME NEW g \in 0..127
  PROVE  128 + g \in Byte /\ g \in Byte
BY SMT DEF Byte

LEMMA FunctionIsSeq ==
  ASSUME NEW n \in Nat, NEW f \in [1..n -> Byte]
  PROVE  f \in Seq(Byte) /\ Len(f) = n
BY SMT

LEMMA VarIntIsBytes ==
  ASSUME NEW v \in UInt32
  PROVE  writeVarInt(v) \in Seq(Byte) /\ Len(writeVarInt(v)) = VarIntLength(v)
<1> SUFFICES ASSUME NEW n \in 1..5, n = VarIntLength(v)
             PROVE  writeVarInt(v) \in Seq(Byte) /\ Len(writeVarInt(v)) = n
  BY LengthInRange
<1>1. ASSUME NEW i \in 1..n
      PROVE  128 + Group(v, i) \in Byte /\ Group(v, i) \in Byte
  <2>1. i \in 1..5
    BY SMT
  <2>2. Group(v, i) \in 0..127
    BY <2>1, GroupInRange
  <2> QED
    BY <2>2, BytesOfGroups
<1>2. writeVarInt(v) \in [1..n -> Byte]
  BY <1>1, Zenon DEF writeVarInt
<1>3. n \in Nat
  BY SMT
<1> QED
  BY <1>2, <1>3, FunctionIsSeq

\* Where the two parts of a concatenation lie.
LEMMA TwoParts ==
  ASSUME NEW a \in Seq(Byte), NEW b \in Seq(Byte), NEW buf \in Seq(Byte), NEW offset \in Nat,
         At(buf, offset, a \o b)
  PROVE  /\ At(buf, offset, a)
         /\ offset + Len(a) + Len(b) <= Len(buf)
         /\ \A i \in 1..Len(b) : buf[offset + Len(a) + i] = b[i]
<1>1. Len(a) \in Nat /\ Len(b) \in Nat /\ Len(buf) \in Nat
  BY LenProperties
<1>2. /\ Len(a \o b) = Len(a) + Len(b)
      /\ \A i \in 1..(Len(a) + Len(b)) :
           (a \o b)[i] = IF i <= Len(a) THEN a[i] ELSE b[i - Len(a)]
  BY ConcatProperties
<1>3. /\ offset + (Len(a) + Len(b)) <= Len(buf)
      /\ \A i \in 1..(Len(a) + Len(b)) : buf[offset + i] = (a \o b)[i]
  BY <1>2 DEF At
<1>4. \A i \in 1..Len(a) : buf[offset + i] = a[i]
  <2> SUFFICES ASSUME NEW i \in 1..Len(a)
               PROVE  buf[offset + i] = a[i]
    OBVIOUS
  <2>1. i \in 1..(Len(a) + Len(b)) /\ i <= Len(a)
    BY <1>1, SMT
  <2> QED
    BY <2>1, <1>2, <1>3
<1>5. \A i \in 1..Len(b) : buf[offset + Len(a) + i] = b[i]
  <2> SUFFICES ASSUME NEW i \in 1..Len(b)
               PROVE  buf[offset + Len(a) + i] = b[i]
    OBVIOUS
  <2> DEFINE k == Len(a) + i
  <2>1. k \in 1..(Len(a) + Len(b)) /\ ~(k <= Len(a)) /\ k - Len(a) = i
        /\ offset + k = offset + Len(a) + i
    BY <1>1, SMT
  <2> HIDE DEF k
  <2>2. buf[offset + k] = b[k - Len(a)]
    BY <2>1, <1>2, <1>3
  <2> QED
    BY <2>1, <2>2
<1>6. offset + Len(a) <= Len(buf) /\ offset + Len(a) + Len(b) <= Len(buf)
  BY <1>1, <1>3, SMT
<1> QED
  BY <1>4, <1>5, <1>6 DEF At

LEMMA SliceOfBytes ==
  ASSUME NEW buf \in Seq(Byte), NEW s \in Seq(Byte), NEW at \in Nat, NEW length \in Nat,
         length = Len(s), at + length <= Len(buf),
         \A i \in 1..length : buf[at + i] = s[i]
  PROVE  SubSeq(buf, at + 1, at + length) = s
<1> SUFFICES ASSUME NEW from, from = at + 1, NEW last, last = at + length
             PROVE  SubSeq(buf, from, last) = s
  OBVIOUS
<1>1. /\ from \in Int /\ last \in Int /\ last - from + 1 = length
      /\ (IF from <= last THEN last - from + 1 ELSE 0) = length
      /\ \A i \in 1..length : from + i - 1 = at + i
      /\ \A i \in from..last : i \in 1..(at + length)
  <2>1. last - from + 1 = length /\ from \in Int /\ last \in Int
    OBVIOUS
  <2>2. from <= last => last - from + 1 = length
    BY <2>1
  <2>3. ~(from <= last) => length = 0
    OBVIOUS
  <2>4. \A i \in 1..length : from + i - 1 = at + i
    OBVIOUS
  <2>5. \A i \in from..last : i \in 1..(at + length)
    OBVIOUS
  <2> QED
    BY <2>1, <2>2, <2>3, <2>4, <2>5
<1>2. \A i \in from..last : buf[i] \in Byte
  <2>1. Len(buf) \in Nat
    BY LenProperties
  <2>2. \A i \in 1..(at + length) : i \in 1..Len(buf)
    BY <2>1, SMT
  <2> QED
    BY <1>1, <2>2, ElementOfSeq
<1> DEFINE sub == SubSeq(buf, from, last)
<1>3. sub \in Seq(Byte) /\ Len(sub) = length /\ \A i \in 1..length : sub[i] = buf[from + i - 1]
  BY <1>1, <1>2, SubSeqProperties
<1>4. \A i \in 1..length : sub[i] = s[i]
  BY <1>1, <1>3
<1> HIDE DEF sub
<1>5. sub = s
  BY <1>3, <1>4, SeqEqual
<1> QED
  BY <1>5 DEF sub

\* A string is read back, and leaves the offset behind its last byte.
THEOREM StringRoundTrip ==
  ASSUME NEW s \in Seq(Byte), Len(s) \in UInt32, NEW buf \in Seq(Byte), NEW offset \in Nat,
         At(buf, offset, writeString(s))
  PROVE  readString(buf, offset)
           = [value |-> s, offset |-> offset + VarIntLength(Len(s)) + Len(s)]
<1> SUFFICES ASSUME NEW n \in Nat, n = VarIntLength(Len(s)), NEW length \in Nat, length = Len(s)
             PROVE  readString(buf, offset) = [value |-> s, offset |-> offset + n + length]
  <2>1. VarIntLength(Len(s)) \in 1..5
    BY LengthInRange
  <2>2. VarIntLength(Len(s)) \in Nat /\ Len(s) \in Nat
    BY <2>1, LenProperties, SMT
  <2> QED
    BY <2>2
<1>1. writeVarInt(Len(s)) \in Seq(Byte) /\ Len(writeVarInt(Len(s))) = n
  BY VarIntIsBytes
<1>2. /\ At(buf, offset, writeVarInt(Len(s)))
      /\ offset + n + length <= Len(buf)
      /\ \A i \in 1..length : buf[offset + n + i] = s[i]
  <2>1. /\ At(buf, offset, writeVarInt(Len(s)))
        /\ offset + Len(writeVarInt(Len(s))) + Len(s) <= Len(buf)
        /\ \A i \in 1..Len(s) : buf[offset + Len(writeVarInt(Len(s))) + i] = s[i]
    <3>1. At(buf, offset, writeVarInt(Len(s)) \o s)
      BY DEF writeString
    <3> QED
      BY <3>1, <1>1, TwoParts
  <2> QED
    BY <2>1, <1>1
<1>3. readVarInt(buf, offset) = [value |-> length, offset |-> offset + n]
  BY <1>2, VarIntRoundTrip
<1>4. readVarInt(buf, offset) # OutOfRange
  <2>1. length # -1
    BY SMT
  <2> QED
    BY <1>3, <2>1 DEF OutOfRange
<1>5. Len(buf) \in Nat
  BY LenProperties
<1>6. need(buf, offset + n, length)
  BY <1>2, <1>5, SMT DEF need
<1>7. SubSeq(buf, offset + n + 1, offset + n + length) = s
  <2>1. offset + n \in Nat
    BY SMT
  <2> QED
    BY <1>2, <2>1, SliceOfBytes
<1>8. readString(buf, offset)
        = [value |-> SubSeq(buf, offset + n + 1, offset + n + length),
           offset |-> offset + n + length]
  <2>1. readVarInt(buf, offset).value = length /\ readVarInt(buf, offset).offset = offset + n
    BY <1>3
  <2> QED
    BY <2>1, <1>4, <1>6 DEF readString
<1> QED
  BY <1>7, <1>8

\* Four bytes, in either order, keep a 32-bit number (DataTypeHelper.cpp's
\* writeUInt and readUInt, writeIntBE and readUIntBE).
THEOREM UIntRoundTrip ==
  ASSUME NEW v \in UInt32, NEW buf \in Seq(Byte), NEW offset \in Nat
  PROVE  /\ At(buf, offset, writeUInt(v)) =>
              readUInt(buf, offset) = [value |-> v, offset |-> offset + 4]
         /\ At(buf, offset, writeIntBE(v)) =>
              readUIntBE(buf, offset) = [value |-> v, offset |-> offset + 4]
<1> DEFINE a == v % 256
           b == Shift8(v) % 256
           c == Shift8(Shift8(v)) % 256
           d == Shift8(Shift8(Shift8(v))) % 256
<1>1. a + 256 * b + 65536 * c + 16777216 * d = v
  BY Digits8
<1>2. a \in Nat /\ b \in Nat /\ c \in Nat /\ d \in Nat
  <2>1. v \in Nat
    BY DEF UInt32
  <2>2. Shift8(v) \in Nat /\ Shift8(Shift8(v)) \in Nat /\ Shift8(Shift8(Shift8(v))) \in Nat
    BY <2>1, By256 DEF Shift8
  <2>3. a \in 0..255 /\ b \in 0..255 /\ c \in 0..255 /\ d \in 0..255
    BY <2>1, <2>2, By256
  <2> HIDE DEF a, b, c, d
  <2> QED
    BY <2>3, SMT
<1>3. writeUInt(v) = <<a, b, c, d>> /\ writeIntBE(v) = <<d, c, b, a>>
  BY DEF writeUInt, writeIntBE
<1> HIDE DEF a, b, c, d
<1>4. Len(buf) \in Nat
  BY LenProperties
<1>5. ASSUME NEW w, NEW x, NEW y, NEW z, At(buf, offset, <<w, x, y, z>>)
      PROVE  /\ need(buf, offset, 4)
             /\ buf[offset + 1] = w /\ buf[offset + 2] = x
             /\ buf[offset + 3] = y /\ buf[offset + 4] = z
  <2>1. Len(<<w, x, y, z>>) = 4
    OBVIOUS
  <2>2. offset + 4 <= Len(buf) /\ \A i \in 1..4 : buf[offset + i] = <<w, x, y, z>>[i]
    BY <1>5, <2>1 DEF At
  <2>3. need(buf, offset, 4)
    BY <2>2, <1>4, SMT DEF need
  <2>4. 1 \in 1..4 /\ 2 \in 1..4 /\ 3 \in 1..4 /\ 4 \in 1..4
    BY SMT
  <2> QED
    BY <2>2, <2>3, <2>4
<1>6. ASSUME At(buf, offset, <<a, b, c, d>>)
      PROVE  readUInt(buf, offset) = [value |-> v, offset |-> offset + 4]
  BY <1>1, <1>5, <1>6 DEF readUInt
<1>7. ASSUME At(buf, offset, <<d, c, b, a>>)
      PROVE  readUIntBE(buf, offset) = [value |-> v, offset |-> offset + 4]
  <2>1. 16777216 * d + 65536 * c + 256 * b + a = v
    BY <1>1, <1>2, SMT
  <2> QED
    BY <2>1, <1>5, <1>7 DEF readUIntBE
<1> QED
  BY <1>3, <1>6, <1>7

-----------------------------------------------------------------------------
(* Frames: RakNetWire. *)

UInt16 == {v \in Nat : v < 65536}

\* Frames whose fields fit the bytes they have.
FrameType ==
  [Reliability : Reliabilities, isSplit : BOOLEAN,
   reliableIndex : UInt24, sequencingIndex : UInt24,
   orderingIndex : UInt24, orderingChannel : Byte,
   splitCount : UInt32, splitId : UInt16, splitIndex : UInt32, buffer : Seq(Byte)]

-----------------------------------------------------------------------------
(* Places *)

LEMMA FirstThenSecond ==
  ASSUME NEW a \in Seq(Byte), NEW b \in Seq(Byte), NEW buf \in Seq(Byte), NEW offset \in Nat,
         At(buf, offset, a \o b)
  PROVE  At(buf, offset, a) /\ At(buf, offset + Len(a), b)
BY TwoParts DEF At

LEMMA BytesAt ==
  ASSUME NEW buf \in Seq(Byte), NEW offset \in Nat
  PROVE  /\ \A w : At(buf, offset, <<w>>) => buf[offset + 1] = w
         /\ \A w, x : At(buf, offset, <<w, x>>) => buf[offset + 1] = w /\ buf[offset + 2] = x
         /\ \A w, x, y : At(buf, offset, <<w, x, y>>) =>
              buf[offset + 1] = w /\ buf[offset + 2] = x /\ buf[offset + 3] = y
         /\ \A w, x, y, z : At(buf, offset, <<w, x, y, z>>) =>
              /\ buf[offset + 1] = w /\ buf[offset + 2] = x
              /\ buf[offset + 3] = y /\ buf[offset + 4] = z
<1>1. ASSUME NEW w, At(buf, offset, <<w>>)
      PROVE  buf[offset + 1] = w
  <2>1. Len(<<w>>) = 1 /\ 1 \in 1..1 /\ <<w>>[1] = w
    OBVIOUS
  <2> QED
    BY <1>1, <2>1 DEF At
<1>2. ASSUME NEW w, NEW x, At(buf, offset, <<w, x>>)
      PROVE  buf[offset + 1] = w /\ buf[offset + 2] = x
  <2>1. Len(<<w, x>>) = 2 /\ 1 \in 1..2 /\ 2 \in 1..2 /\ <<w, x>>[1] = w /\ <<w, x>>[2] = x
    OBVIOUS
  <2> QED
    BY <1>2, <2>1 DEF At
<1>3. ASSUME NEW w, NEW x, NEW y, At(buf, offset, <<w, x, y>>)
      PROVE  buf[offset + 1] = w /\ buf[offset + 2] = x /\ buf[offset + 3] = y
  <2>1. /\ Len(<<w, x, y>>) = 3 /\ 1 \in 1..3 /\ 2 \in 1..3 /\ 3 \in 1..3
        /\ <<w, x, y>>[1] = w /\ <<w, x, y>>[2] = x /\ <<w, x, y>>[3] = y
    OBVIOUS
  <2> QED
    BY <1>3, <2>1 DEF At
<1>4. ASSUME NEW w, NEW x, NEW y, NEW z, At(buf, offset, <<w, x, y, z>>)
      PROVE  /\ buf[offset + 1] = w /\ buf[offset + 2] = x
             /\ buf[offset + 3] = y /\ buf[offset + 4] = z
  <2>1. /\ Len(<<w, x, y, z>>) = 4 /\ 1 \in 1..4 /\ 2 \in 1..4 /\ 3 \in 1..4 /\ 4 \in 1..4
        /\ <<w, x, y, z>>[1] = w /\ <<w, x, y, z>>[2] = x
        /\ <<w, x, y, z>>[3] = y /\ <<w, x, y, z>>[4] = z
    OBVIOUS
  <2> QED
    BY <1>4, <2>1 DEF At
<1> QED
  BY <1>1, <1>2, <1>3, <1>4

-----------------------------------------------------------------------------
(* Numbers *)

LEMMA ShiftsAreBytes ==
  ASSUME NEW v \in Nat
  PROVE  /\ v % 256 \in Byte /\ Shift8(v) % 256 \in Byte /\ Shift8(Shift8(v)) % 256 \in Byte
         /\ Shift8(Shift8(Shift8(v))) % 256 \in Byte
<1>1. Shift8(v) \in Nat /\ Shift8(Shift8(v)) \in Nat /\ Shift8(Shift8(Shift8(v))) \in Nat
  BY By256 DEF Shift8
<1> QED
  BY <1>1, By256 DEF Byte

LEMMA TwoShifts ==
  ASSUME NEW v \in Nat, v < 16777216, NEW a \in Nat, NEW b \in Nat, a = v \div 256, b = a \div 256
  PROVE  (v % 256) + 256 * (a % 256) + 65536 * (b % 256) = v
<1>1. b < 256
  BY SMT
<1>2. b % 256 = b
  BY <1>1, SMT
<1>3. v = 256 * a + (v % 256) /\ a = 256 * b + (a % 256)
  BY By256
<1>4. v % 256 \in Nat /\ a % 256 \in Nat
  BY By256, SMT
<1> QED
  BY <1>2, <1>3, <1>4, SMT

LEMMA OneShift ==
  ASSUME NEW v \in Nat, v < 65536
  PROVE  256 * ((v \div 256) % 256) + (v % 256) = v
<1> SUFFICES ASSUME NEW a \in Nat, a = v \div 256
             PROVE  256 * (a % 256) + (v % 256) = v
  BY By256
<1>1. a < 256
  BY SMT
<1>2. a % 256 = a
  BY <1>1, SMT
<1> QED
  BY <1>2, By256

LEMMA Read24 ==
  ASSUME NEW v \in UInt24, NEW data \in Seq(Byte), NEW pos \in Nat,
         At(data, pos, writeUInt24LE(v))
  PROVE  Int24LE(data, pos) = v
<1>1. v \in Nat /\ v < 16777216
  BY DEF UInt24
<1>2. (v % 256) + 256 * (Shift8(v) % 256) + 65536 * (Shift8(Shift8(v)) % 256) = v
  BY <1>1, TwoShifts, By256 DEF Shift8
<1>3. /\ data[pos + 1] = v % 256
      /\ data[pos + 2] = Shift8(v) % 256
      /\ data[pos + 3] = Shift8(Shift8(v)) % 256
  BY BytesAt DEF writeUInt24LE
<1> QED
  BY <1>2, <1>3 DEF Int24LE

LEMMA Read16 ==
  ASSUME NEW v \in UInt16, NEW data \in Seq(Byte), NEW pos \in Nat,
         At(data, pos, writeUInt16BE(v))
  PROVE  Int16BE(data, pos) = v
<1>1. v \in Nat /\ v < 65536
  BY DEF UInt16
<1>2. data[pos + 1] = (v \div 256) % 256 /\ data[pos + 2] = v % 256
  BY BytesAt DEF writeUInt16BE
<1> QED
  BY <1>1, <1>2, OneShift DEF Int16BE

LEMMA Read32 ==
  ASSUME NEW v \in UInt32, NEW data \in Seq(Byte), NEW pos \in Nat,
         At(data, pos, writeIntBE(v))
  PROVE  Int32BE(data, pos) = v
<1>0. v \in Nat
  BY DEF UInt32
<1>1. (v % 256) + 256 * (Shift8(v) % 256) + 65536 * (Shift8(Shift8(v)) % 256)
        + 16777216 * (Shift8(Shift8(Shift8(v))) % 256) = v
  BY Digits8
<1>2. /\ data[pos + 1] = Shift8(Shift8(Shift8(v))) % 256
      /\ data[pos + 2] = Shift8(Shift8(v)) % 256
      /\ data[pos + 3] = Shift8(v) % 256
      /\ data[pos + 4] = v % 256
  BY BytesAt DEF writeIntBE
<1> SUFFICES ASSUME NEW a \in Nat, NEW b \in Nat, NEW c \in Nat, NEW d \in Nat,
                    a = v % 256, b = Shift8(v) % 256, c = Shift8(Shift8(v)) % 256,
                    d = Shift8(Shift8(Shift8(v))) % 256
             PROVE  Int32BE(data, pos) = v
  <2>1. \A x \in Byte : x \in Nat
    BY DEF Byte
  <2>2. /\ v % 256 \in Nat /\ Shift8(v) % 256 \in Nat
        /\ Shift8(Shift8(v)) % 256 \in Nat /\ Shift8(Shift8(Shift8(v))) % 256 \in Nat
    BY <1>0, ShiftsAreBytes, <2>1, Zenon
  <2> QED
    BY <2>2, Zenon
<1>3. 16777216 * d + 65536 * c + 256 * b + a = v
  BY <1>1, SMT
<1> QED
  BY <1>2, <1>3 DEF Int32BE

-----------------------------------------------------------------------------
(* The parts of a frame *)

LEMMA Joined ==
  ASSUME NEW a \in Seq(Byte), NEW b \in Seq(Byte)
  PROVE  a \o b \in Seq(Byte) /\ Len(a \o b) = Len(a) + Len(b)
OBVIOUS

SixPlaced(a, b, c, d, e, f, data, pos) ==
  /\ At(data, pos, a)
  /\ At(data, pos + Len(a), b)
  /\ At(data, pos + Len(a) + Len(b), c)
  /\ At(data, pos + Len(a) + Len(b) + Len(c), d)
  /\ At(data, pos + Len(a) + Len(b) + Len(c) + Len(d), e)
  /\ At(data, pos + Len(a) + Len(b) + Len(c) + Len(d) + Len(e), f)
  /\ Len(a \o b \o c \o d \o e \o f)
       = Len(a) + Len(b) + Len(c) + Len(d) + Len(e) + Len(f)

LEMMA SixParts ==
  ASSUME NEW a \in Seq(Byte), NEW b \in Seq(Byte), NEW c \in Seq(Byte), NEW d \in Seq(Byte),
         NEW e \in Seq(Byte), NEW f \in Seq(Byte), NEW data \in Seq(Byte), NEW pos \in Nat,
         At(data, pos, a \o b \o c \o d \o e \o f)
  PROVE  SixPlaced(a, b, c, d, e, f, data, pos)
<1> DEFINE ab == a \o b
           abc == ab \o c
           abcd == abc \o d
           abcde == abcd \o e
<1>1. ab \in Seq(Byte) /\ Len(ab) = Len(a) + Len(b)
  OBVIOUS
<1> HIDE DEF ab
<1>2. abc \in Seq(Byte) /\ Len(abc) = Len(a) + Len(b) + Len(c)
  BY <1>1, Joined
<1> HIDE DEF abc
<1>3. abcd \in Seq(Byte) /\ Len(abcd) = Len(a) + Len(b) + Len(c) + Len(d)
  BY <1>2, Joined
<1> HIDE DEF abcd
<1>4. abcde \in Seq(Byte) /\ Len(abcde) = Len(a) + Len(b) + Len(c) + Len(d) + Len(e)
  BY <1>3, Joined
<1> HIDE DEF abcde
<1>5. At(data, pos, abcde \o f)
  BY DEF ab, abc, abcd, abcde
<1>6. At(data, pos, abcde) /\ At(data, pos + Len(abcde), f)
  BY <1>4, <1>5, FirstThenSecond
<1>7. At(data, pos, abcd) /\ At(data, pos + Len(abcd), e)
  BY <1>3, <1>6, FirstThenSecond DEF abcde
<1>8. At(data, pos, abc) /\ At(data, pos + Len(abc), d)
  BY <1>2, <1>7, FirstThenSecond DEF abcd
<1>9. At(data, pos, ab) /\ At(data, pos + Len(ab), c)
  BY <1>1, <1>8, FirstThenSecond DEF abc
<1>10. At(data, pos, a) /\ At(data, pos + Len(a), b)
  BY <1>9, FirstThenSecond DEF ab
<1>11. Len(abcde \o f) = Len(abcde) + Len(f)
  BY <1>4, Joined
<1>12. abcde \o f = a \o b \o c \o d \o e \o f
  BY DEF ab, abc, abcd, abcde
<1>13. /\ pos + Len(abcde) = pos + Len(a) + Len(b) + Len(c) + Len(d) + Len(e)
       /\ pos + Len(abcd) = pos + Len(a) + Len(b) + Len(c) + Len(d)
       /\ pos + Len(abc) = pos + Len(a) + Len(b) + Len(c)
       /\ pos + Len(ab) = pos + Len(a) + Len(b)
       /\ Len(a) \in Nat /\ Len(b) \in Nat /\ Len(c) \in Nat /\ Len(d) \in Nat /\ Len(e) \in Nat
  BY <1>1, <1>2, <1>3, <1>4
<1> QED
  BY <1>4, <1>6, <1>7, <1>8, <1>9, <1>10, <1>11, <1>12, <1>13 DEF SixPlaced

IsBytes(s, n) == s \in Seq(Byte) /\ Len(s) = n

LEMMA Written ==
  ASSUME NEW v \in Nat
  PROVE  /\ IsBytes(writeUInt16BE(v), 2)
         /\ IsBytes(writeUInt24LE(v), 3)
         /\ IsBytes(writeIntBE(v), 4)
<1>1. (v \div 256) % 256 \in Byte /\ v % 256 \in Byte
  BY ShiftsAreBytes DEF Shift8
<1>2. IsBytes(writeUInt16BE(v), 2)
  BY <1>1 DEF writeUInt16BE, IsBytes
<1>3. IsBytes(writeUInt24LE(v), 3)
  BY ShiftsAreBytes DEF writeUInt24LE, IsBytes
<1>4. IsBytes(writeIntBE(v), 4)
  BY ShiftsAreBytes DEF writeIntBE, IsBytes
<1> QED
  BY <1>2, <1>3, <1>4

LEMMA JoinedBytes ==
  ASSUME NEW a, NEW b, NEW m \in Nat, NEW n \in Nat, IsBytes(a, m), IsBytes(b, n)
  PROVE  IsBytes(a \o b, m + n)
BY DEF IsBytes

\* Three bits for the reliability, one for the split: both come back.
LEMMA FlagsComeBack ==
  ASSUME NEW frame \in FrameType
  PROVE  /\ FrameFlags(frame) \in Byte
         /\ ReliabilityOf(FrameFlags(frame)) = frame.Reliability
         /\ SplitOf(FrameFlags(frame)) = frame.isSplit
<1>1. frame.Reliability \in 0..7 /\ frame.isSplit \in BOOLEAN
  BY DEF FrameType, Reliabilities
<1>2. \A r \in 0..7 : /\ 32 * r \in 0..255 /\ (32 * r) \div 32 = r
                      /\ ((32 * r) \div 16) % 2 = 0
  BY SMT
<1>3. \A r \in 0..7 : /\ 32 * r + 16 \in 0..255 /\ (32 * r + 16) \div 32 = r
                      /\ ((32 * r + 16) \div 16) % 2 = 1
  BY SMT
<1>4. CASE frame.isSplit
  <2>1. FrameFlags(frame) = 32 * frame.Reliability + 16
    BY <1>4 DEF FrameFlags
  <2> QED
    BY <1>1, <1>3, <1>4, <2>1 DEF Byte, ReliabilityOf, SplitOf
<1>5. CASE ~frame.isSplit
  <2>1. FrameFlags(frame) = 32 * frame.Reliability
    BY <1>1, <1>5 DEF FrameFlags
  <2> QED
    BY <1>1, <1>2, <1>5, <2>1 DEF Byte, ReliabilityOf, SplitOf
<1> QED
  BY <1>4, <1>5

LEMMA PartWidths ==
  ASSUME NEW frame \in FrameType
  PROVE  /\ IsBytes(ReliablePart(frame), ReliableWidth(frame.Reliability))
         /\ IsBytes(SequencedPart(frame), SequencedWidth(frame.Reliability))
         /\ IsBytes(OrderedPart(frame), OrderedWidth(frame.Reliability))
         /\ IsBytes(SplitPart(frame), SplitWidth(frame.isSplit))
<1>1. /\ frame.reliableIndex \in Nat /\ frame.sequencingIndex \in Nat
      /\ frame.orderingIndex \in Nat /\ frame.orderingChannel \in Byte
      /\ frame.splitCount \in Nat /\ frame.splitId \in Nat /\ frame.splitIndex \in Nat
  BY DEF FrameType, UInt24, UInt32, UInt16
<1>2. IsBytes(<<>>, 0)
  BY DEF IsBytes
<1>3. IsBytes(ReliablePart(frame), ReliableWidth(frame.Reliability))
  BY <1>1, <1>2, Written DEF ReliablePart, ReliableWidth
<1>4. IsBytes(SequencedPart(frame), SequencedWidth(frame.Reliability))
  BY <1>1, <1>2, Written DEF SequencedPart, SequencedWidth
<1>5. IsBytes(OrderedPart(frame), OrderedWidth(frame.Reliability))
  <2>1. IsBytes(<<frame.orderingChannel>>, 1)
    BY <1>1 DEF IsBytes
  <2>2. IsBytes(writeUInt24LE(frame.orderingIndex) \o <<frame.orderingChannel>>, 3 + 1)
    BY <1>1, <2>1, Written, JoinedBytes
  <2> QED
    BY <1>2, <2>2, 3 + 1 = 4 DEF OrderedPart, OrderedWidth
<1>6. IsBytes(SplitPart(frame), SplitWidth(frame.isSplit))
  <2>1. IsBytes(writeIntBE(frame.splitCount) \o writeUInt16BE(frame.splitId), 4 + 2)
    BY <1>1, Written, JoinedBytes
  <2>2. IsBytes(writeIntBE(frame.splitCount) \o writeUInt16BE(frame.splitId)
                  \o writeIntBE(frame.splitIndex), (4 + 2) + 4)
    BY <1>1, <2>1, Written, JoinedBytes, 4 + 2 \in Nat
  <2> QED
    BY <1>2, <2>2, (4 + 2) + 4 = 10 DEF SplitPart, SplitWidth
<1> QED
  BY <1>3, <1>4, <1>5, <1>6

Header(frame) == <<FrameFlags(frame)>> \o writeUInt16BE(Bits(Len(frame.buffer)))

LEMMA BitsInRange ==
  ASSUME NEW n \in Nat
  PROVE  Bits(n) \in Nat /\ Bits(n) < 65536
BY SMT DEF Bits

LEMMA HeaderBytes ==
  ASSUME NEW frame \in FrameType
  PROVE  IsBytes(Header(frame), 3) /\ IsBytes(frame.buffer, Len(frame.buffer))
         /\ Len(frame.buffer) \in Nat /\ Bits(Len(frame.buffer)) \in UInt16
<1>1. frame.buffer \in Seq(Byte)
  BY DEF FrameType
<1>2. Len(frame.buffer) \in Nat
  BY <1>1
<1>3. Bits(Len(frame.buffer)) \in Nat /\ Bits(Len(frame.buffer)) < 65536
  BY <1>2, BitsInRange
<1>4. IsBytes(<<FrameFlags(frame)>>, 1)
  BY FlagsComeBack DEF IsBytes
<1>5. IsBytes(Header(frame), 1 + 2)
  BY <1>3, <1>4, Written, JoinedBytes DEF Header
<1> QED
  BY <1>1, <1>2, <1>3, <1>5, 1 + 2 = 3 DEF IsBytes, UInt16

WidthsAreNumbers(r, split) ==
  /\ ReliableWidth(r) \in Nat /\ SequencedWidth(r) \in Nat
  /\ OrderedWidth(r) \in Nat /\ SplitWidth(split) \in Nat

LEMMA Widths ==
  ASSUME NEW r, NEW split
  PROVE  WidthsAreNumbers(r, split)
BY DEF WidthsAreNumbers, ReliableWidth, SequencedWidth, OrderedWidth, SplitWidth

\* Where the decoder looks for a part is where the encoder put it.
SequencedAt(frame, pos) == pos + 3 + ReliableWidth(frame.Reliability)
OrderedAt(frame, pos)   == SequencedAt(frame, pos) + SequencedWidth(frame.Reliability)
SplitAt(frame, pos)     == OrderedAt(frame, pos) + OrderedWidth(frame.Reliability)
BodyAt(frame, pos)      == SplitAt(frame, pos) + SplitWidth(frame.isSplit)

PartsPlaced(frame, data, pos) ==
  /\ At(data, pos, Header(frame))
  /\ At(data, pos + 3, ReliablePart(frame))
  /\ At(data, SequencedAt(frame, pos), SequencedPart(frame))
  /\ At(data, OrderedAt(frame, pos), OrderedPart(frame))
  /\ At(data, SplitAt(frame, pos), SplitPart(frame))
  /\ At(data, BodyAt(frame, pos), frame.buffer)
  /\ pos + Len(encodeFrame(frame)) = BodyAt(frame, pos) + Len(frame.buffer)
  /\ SequencedAt(frame, pos) \in Nat /\ OrderedAt(frame, pos) \in Nat
  /\ SplitAt(frame, pos) \in Nat /\ BodyAt(frame, pos) \in Nat

LEMMA Placed ==
  ASSUME NEW frame \in FrameType, NEW data \in Seq(Byte), NEW pos \in Nat,
         At(data, pos, encodeFrame(frame))
  PROVE  PartsPlaced(frame, data, pos)
<1>1. PICK a \in Seq(Byte) : a = Header(frame) /\ Len(a) = 3
  BY HeaderBytes DEF IsBytes
<1>2. PICK b \in Seq(Byte) : b = ReliablePart(frame) /\ Len(b) = ReliableWidth(frame.Reliability)
  BY PartWidths DEF IsBytes
<1>3. PICK c \in Seq(Byte) : c = SequencedPart(frame) /\ Len(c) = SequencedWidth(frame.Reliability)
  BY PartWidths DEF IsBytes
<1>4. PICK d \in Seq(Byte) : d = OrderedPart(frame) /\ Len(d) = OrderedWidth(frame.Reliability)
  BY PartWidths DEF IsBytes
<1>5. PICK e \in Seq(Byte) : e = SplitPart(frame) /\ Len(e) = SplitWidth(frame.isSplit)
  BY PartWidths DEF IsBytes
<1>6. PICK f \in Seq(Byte) : f = frame.buffer
  BY HeaderBytes DEF IsBytes
<1>7. encodeFrame(frame) = a \o b \o c \o d \o e \o f
  BY <1>1, <1>2, <1>3, <1>4, <1>5, <1>6 DEF encodeFrame, Header
<1>8. At(data, pos, a \o b \o c \o d \o e \o f)
  BY <1>7
<1> DEFINE B == ReliableWidth(frame.Reliability)
           C == SequencedWidth(frame.Reliability)
           D == OrderedWidth(frame.Reliability)
           E == SplitWidth(frame.isSplit)
<1>9. /\ At(data, pos, a) /\ At(data, pos + 3, b) /\ At(data, pos + 3 + B, c)
      /\ At(data, pos + 3 + B + C, d) /\ At(data, pos + 3 + B + C + D, e)
      /\ At(data, pos + 3 + B + C + D + E, f)
      /\ Len(a \o b \o c \o d \o e \o f) = 3 + B + C + D + E + Len(f)
  <2>1. Len(a) = 3 /\ Len(b) = B /\ Len(c) = C /\ Len(d) = D /\ Len(e) = E
    BY <1>1, <1>2, <1>3, <1>4, <1>5
  <2> HIDE DEF B, C, D, E
  <2>2. SixPlaced(a, b, c, d, e, f, data, pos)
    BY <1>8, SixParts, Zenon
  <2> QED
    BY <2>1, <2>2, Zenon DEF SixPlaced
<1>10. B \in Nat /\ C \in Nat /\ D \in Nat /\ E \in Nat
  BY Widths DEF WidthsAreNumbers
<1>11. Len(f) \in Nat
  OBVIOUS
<1>12. /\ SequencedAt(frame, pos) = pos + 3 + B
       /\ OrderedAt(frame, pos) = pos + 3 + B + C
       /\ SplitAt(frame, pos) = pos + 3 + B + C + D
       /\ BodyAt(frame, pos) = pos + 3 + B + C + D + E
  BY DEF SequencedAt, OrderedAt, SplitAt, BodyAt
<1> HIDE DEF B, C, D, E
<1>13. /\ SequencedAt(frame, pos) \in Nat /\ OrderedAt(frame, pos) \in Nat
       /\ SplitAt(frame, pos) \in Nat /\ BodyAt(frame, pos) \in Nat
  BY <1>10, <1>12
<1>14. pos + (3 + B + C + D + E + Len(f)) = pos + 3 + B + C + D + E + Len(f)
  BY <1>10, <1>11
<1>15. pos + Len(encodeFrame(frame)) = BodyAt(frame, pos) + Len(frame.buffer)
  BY <1>6, <1>7, <1>9, <1>12, <1>14
<1> QED
  BY <1>1, <1>2, <1>3, <1>4, <1>5, <1>6, <1>9, <1>12, <1>13, <1>15 DEF PartsPlaced

-----------------------------------------------------------------------------
(* The fields, one part at a time *)

LEMMA HeaderRead ==
  ASSUME NEW frame \in FrameType, NEW data \in Seq(Byte), NEW pos \in Nat,
         At(data, pos, Header(frame))
  PROVE  /\ pos + 3 <= Len(data)
         /\ data[pos + 1] = FrameFlags(frame)
         /\ Int16BE(data, pos + 1) = Bits(Len(frame.buffer))
<1>1. IsBytes(<<FrameFlags(frame)>>, 1) /\ IsBytes(writeUInt16BE(Bits(Len(frame.buffer))), 2)
  <2>1. Bits(Len(frame.buffer)) \in Nat
    BY HeaderBytes DEF UInt16
  <2> QED
    BY <2>1, FlagsComeBack, Written DEF IsBytes
<1>2. At(data, pos, <<FrameFlags(frame)>>) /\ At(data, pos + 1, writeUInt16BE(Bits(Len(frame.buffer))))
  BY <1>1, FirstThenSecond DEF IsBytes, Header
<1>3. pos + 3 <= Len(data)
  BY HeaderBytes DEF At, IsBytes
<1> QED
  BY <1>2, <1>3, BytesAt, Read16, HeaderBytes

LEMMA OrderedRead ==
  ASSUME NEW frame \in FrameType, NEW data \in Seq(Byte), NEW at \in Nat,
         isOrdered(frame.Reliability), At(data, at, OrderedPart(frame))
  PROVE  Int24LE(data, at) = frame.orderingIndex /\ data[at + 4] = frame.orderingChannel
<1>1. /\ frame.orderingIndex \in Nat /\ frame.orderingIndex \in UInt24
      /\ frame.orderingChannel \in Byte
  BY DEF FrameType, UInt24
<1>2. /\ IsBytes(writeUInt24LE(frame.orderingIndex), 3)
      /\ IsBytes(<<frame.orderingChannel>>, 1)
  BY <1>1, Written DEF IsBytes
<1>3. At(data, at, writeUInt24LE(frame.orderingIndex) \o <<frame.orderingChannel>>)
  BY DEF OrderedPart
<1>4. /\ At(data, at, writeUInt24LE(frame.orderingIndex))
      /\ At(data, at + 3, <<frame.orderingChannel>>)
  BY <1>2, <1>3, FirstThenSecond DEF IsBytes
<1>5. data[(at + 3) + 1] = frame.orderingChannel
  BY <1>4, BytesAt
<1> QED
  BY <1>1, <1>4, <1>5, Read24

LEMMA SplitRead ==
  ASSUME NEW frame \in FrameType, NEW data \in Seq(Byte), NEW at \in Nat,
         frame.isSplit, At(data, at, SplitPart(frame))
  PROVE  /\ Int32BE(data, at) = frame.splitCount
         /\ Int16BE(data, at + 4) = frame.splitId
         /\ Int32BE(data, at + 6) = frame.splitIndex
<1>1. /\ frame.splitCount \in Nat /\ frame.splitCount \in UInt32
      /\ frame.splitId \in Nat /\ frame.splitId \in UInt16
      /\ frame.splitIndex \in Nat /\ frame.splitIndex \in UInt32
  BY DEF FrameType, UInt32, UInt16
<1>2. PICK w \in Seq(Byte) : w = writeIntBE(frame.splitCount) /\ Len(w) = 4
  BY <1>1, Written DEF IsBytes
<1>3. PICK x \in Seq(Byte) : x = writeUInt16BE(frame.splitId) /\ Len(x) = 2
  BY <1>1, Written DEF IsBytes
<1>4. PICK y \in Seq(Byte) : y = writeIntBE(frame.splitIndex) /\ Len(y) = 4
  BY <1>1, Written DEF IsBytes
<1>5. At(data, at, (w \o x) \o y)
  BY <1>2, <1>3, <1>4 DEF SplitPart
<1>6. IsBytes(w \o x, 4 + 2)
  <2>1. IsBytes(w, 4) /\ IsBytes(x, 2)
    BY <1>2, <1>3 DEF IsBytes
  <2> QED
    BY <2>1, JoinedBytes
<1>7. At(data, at, w \o x) /\ At(data, at + 6, y)
  BY <1>5, <1>6, FirstThenSecond, 4 + 2 = 6 DEF IsBytes
<1>8. At(data, at, w) /\ At(data, at + 4, x)
  BY <1>2, <1>7, FirstThenSecond
<1> QED
  BY <1>1, <1>2, <1>3, <1>4, <1>7, <1>8, Read32, Read16

LEMMA BodyRead ==
  ASSUME NEW data \in Seq(Byte), NEW at \in Nat, NEW bytes \in Seq(Byte), At(data, at, bytes)
  PROVE  Slice(data, at, Len(bytes)) = bytes /\ at + Len(bytes) <= Len(data)
BY DEF At, Slice

LEMMA BitsRoundUp ==
  ASSUME NEW n \in Nat, n <= 8191
  PROVE  WholeBytes(Bits(n)) = n
<1>1. Bits(n) = 8 * n
  BY SMT DEF Bits
<1> QED
  BY <1>1, SMT DEF WholeBytes

\* The fields a turn of the decoder's loop makes of the places it has found.
FieldsAt(data, pos, r, split, length, seqAt, ordAt, splAt, bodyAt) ==
  [Reliability     |-> r,
   isSplit         |-> split,
   reliableIndex   |-> OrZero(isReliable(r), Int24LE(data, pos + 3)),
   sequencingIndex |-> OrZero(isSequenced(r), Int24LE(data, seqAt)),
   orderingIndex   |-> OrZero(isOrdered(r), Int24LE(data, ordAt)),
   orderingChannel |-> OrZero(isOrdered(r), data[ordAt + 4]),
   splitCount      |-> OrZero(split, Int32BE(data, splAt)),
   splitId         |-> OrZero(split, Int16BE(data, splAt + 4)),
   splitIndex      |-> OrZero(split, Int32BE(data, splAt + 6)),
   buffer          |-> Slice(data, bodyAt, length)]

\* A frame's fields, taken one by one.
Fields(r, split, rel, seq, ord, chan, count, id, index, buffer) ==
  [Reliability |-> r, isSplit |-> split, reliableIndex |-> rel, sequencingIndex |-> seq,
   orderingIndex |-> ord, orderingChannel |-> chan, splitCount |-> count, splitId |-> id,
   splitIndex |-> index, buffer |-> buffer]

LEMMA ReadAt ==
  ASSUME NEW data, NEW pos, NEW r, NEW split \in BOOLEAN, NEW length,
         NEW seqAt, NEW ordAt, NEW splAt, NEW bodyAt,
         ReliabilityOf(data[pos + 1]) = r, SplitOf(data[pos + 1]) = split,
         WholeBytes(Int16BE(data, pos + 1)) = length,
         pos + 3 + ReliableWidth(r) = seqAt, seqAt + SequencedWidth(r) = ordAt,
         ordAt + OrderedWidth(r) = splAt, splAt + SplitWidth(split) = bodyAt,
         ~(pos + 3 > Len(data)), ~(bodyAt + length > Len(data))
  PROVE  readFrame(data, pos) =
           [pos   |-> bodyAt + length,
            frame |-> FieldsAt(data, pos, r, split, length, seqAt, ordAt, splAt, bodyAt)]
BY Zenon DEF readFrame, FieldsAt

LEMMA FieldsFound ==
  ASSUME NEW data, NEW pos, NEW r, NEW split, NEW length,
         NEW seqAt, NEW ordAt, NEW splAt, NEW bodyAt
  PROVE  FieldsAt(data, pos, r, split, length, seqAt, ordAt, splAt, bodyAt)
        = Fields(r, split,
                 OrZero(isReliable(r), Int24LE(data, pos + 3)),
                 OrZero(isSequenced(r), Int24LE(data, seqAt)),
                 OrZero(isOrdered(r), Int24LE(data, ordAt)),
                 OrZero(isOrdered(r), data[ordAt + 4]),
                 OrZero(split, Int32BE(data, splAt)),
                 OrZero(split, Int16BE(data, splAt + 4)),
                 OrZero(split, Int32BE(data, splAt + 6)),
                 Slice(data, bodyAt, length))
BY SMT DEF FieldsAt, Fields

LEMMA FieldsCarried ==
  ASSUME NEW frame
  PROVE  Carried(frame)
        = Fields(frame.Reliability, frame.isSplit,
                 OrZero(isReliable(frame.Reliability), frame.reliableIndex),
                 OrZero(isSequenced(frame.Reliability), frame.sequencingIndex),
                 OrZero(isOrdered(frame.Reliability), frame.orderingIndex),
                 OrZero(isOrdered(frame.Reliability), frame.orderingChannel),
                 OrZero(frame.isSplit, frame.splitCount),
                 OrZero(frame.isSplit, frame.splitId),
                 OrZero(frame.isSplit, frame.splitIndex),
                 frame.buffer)
BY SMT DEF Carried, Fields

\* A frame is read as it was written, wherever it stands in a datagram: the
\* reliability, every field its header has a part for, and the payload, if that
\* is no longer than a 16-bit count of bits can say; and the next frame is
\* looked for right after it (FrameSetPacket.cpp, encode and decode).
THEOREM FrameReadBack ==
  ASSUME NEW frame \in FrameType, Len(frame.buffer) <= 8191,
         NEW data \in Seq(Byte), NEW pos \in Nat, At(data, pos, encodeFrame(frame))
  PROVE  readFrame(data, pos) = [pos   |-> pos + Len(encodeFrame(frame)),
                                 frame |-> Carried(frame)]
<1>1. PartsPlaced(frame, data, pos)
  BY Placed
<1>2. /\ pos + 3 <= Len(data)
      /\ data[pos + 1] = FrameFlags(frame)
      /\ Int16BE(data, pos + 1) = Bits(Len(frame.buffer))
  BY <1>1, HeaderRead DEF PartsPlaced
<1>3. Len(frame.buffer) \in Nat /\ frame.buffer \in Seq(Byte)
  BY HeaderBytes DEF IsBytes
<1>4. WholeBytes(Int16BE(data, pos + 1)) = Len(frame.buffer)
  BY <1>2, <1>3, BitsRoundUp
<1>5. /\ ReliabilityOf(data[pos + 1]) = frame.Reliability
      /\ SplitOf(data[pos + 1]) = frame.isSplit
  BY <1>2, FlagsComeBack
<1>6. /\ frame.reliableIndex \in UInt24 /\ frame.sequencingIndex \in UInt24
      /\ frame.isSplit \in BOOLEAN
  BY DEF FrameType
<1>7. isReliable(frame.Reliability) => Int24LE(data, pos + 3) = frame.reliableIndex
  BY <1>1, <1>6, Read24 DEF PartsPlaced, ReliablePart
<1>8. isSequenced(frame.Reliability) =>
        Int24LE(data, SequencedAt(frame, pos)) = frame.sequencingIndex
  BY <1>1, <1>6, Read24 DEF PartsPlaced, SequencedPart
<1>9. isOrdered(frame.Reliability) =>
        /\ Int24LE(data, OrderedAt(frame, pos)) = frame.orderingIndex
        /\ data[OrderedAt(frame, pos) + 4] = frame.orderingChannel
  BY <1>1, OrderedRead DEF PartsPlaced
<1>10. frame.isSplit =>
        /\ Int32BE(data, SplitAt(frame, pos)) = frame.splitCount
        /\ Int16BE(data, SplitAt(frame, pos) + 4) = frame.splitId
        /\ Int32BE(data, SplitAt(frame, pos) + 6) = frame.splitIndex
  BY <1>1, SplitRead DEF PartsPlaced
<1>11. /\ BodyAt(frame, pos) + Len(frame.buffer) <= Len(data)
       /\ Slice(data, BodyAt(frame, pos), Len(frame.buffer)) = frame.buffer
       /\ BodyAt(frame, pos) + Len(frame.buffer) = pos + Len(encodeFrame(frame))
  BY <1>1, <1>3, BodyRead DEF PartsPlaced
<1>12. pos + 3 \in Nat /\ Len(data) \in Nat /\ BodyAt(frame, pos) + Len(frame.buffer) \in Nat
  BY <1>1, <1>3 DEF PartsPlaced
<1>13. PICK r, length, seqAt, ordAt, splAt, bodyAt :
         /\ r = frame.Reliability /\ length = Len(frame.buffer)
         /\ seqAt = SequencedAt(frame, pos) /\ ordAt = OrderedAt(frame, pos)
         /\ splAt = SplitAt(frame, pos) /\ bodyAt = BodyAt(frame, pos)
  OBVIOUS
<1>14. PICK split \in BOOLEAN : split = frame.isSplit
  BY <1>6
<1>15. /\ pos + 3 + ReliableWidth(r) = seqAt /\ seqAt + SequencedWidth(r) = ordAt
       /\ ordAt + OrderedWidth(r) = splAt /\ splAt + SplitWidth(split) = bodyAt
  BY <1>13, <1>14 DEF SequencedAt, OrderedAt, SplitAt, BodyAt
<1>16. /\ ~(pos + 3 > Len(data)) /\ ~(bodyAt + length > Len(data))
  BY <1>2, <1>11, <1>12, <1>13
<1>17. /\ ReliabilityOf(data[pos + 1]) = r /\ SplitOf(data[pos + 1]) = split
       /\ WholeBytes(Int16BE(data, pos + 1)) = length
  BY <1>4, <1>5, <1>13, <1>14
<1>18. readFrame(data, pos) =
         [pos   |-> bodyAt + length,
          frame |-> FieldsAt(data, pos, r, split, length, seqAt, ordAt, splAt, bodyAt)]
  BY <1>15, <1>16, <1>17, ReadAt
<1>19. Carried(frame) = FieldsAt(data, pos, r, split, length, seqAt, ordAt, splAt, bodyAt)
  <2>1. OrZero(isReliable(r), Int24LE(data, pos + 3))
          = OrZero(isReliable(frame.Reliability), frame.reliableIndex)
    BY <1>7, <1>13 DEF OrZero
  <2>2. OrZero(isSequenced(r), Int24LE(data, seqAt))
          = OrZero(isSequenced(frame.Reliability), frame.sequencingIndex)
    BY <1>8, <1>13 DEF OrZero
  <2>3. /\ OrZero(isOrdered(r), Int24LE(data, ordAt))
             = OrZero(isOrdered(frame.Reliability), frame.orderingIndex)
        /\ OrZero(isOrdered(r), data[ordAt + 4])
             = OrZero(isOrdered(frame.Reliability), frame.orderingChannel)
    BY <1>9, <1>13 DEF OrZero
  <2>4. /\ OrZero(split, Int32BE(data, splAt))
             = OrZero(frame.isSplit, frame.splitCount)
        /\ OrZero(split, Int16BE(data, splAt + 4))
             = OrZero(frame.isSplit, frame.splitId)
        /\ OrZero(split, Int32BE(data, splAt + 6))
             = OrZero(frame.isSplit, frame.splitIndex)
    BY <1>10, <1>13, <1>14 DEF OrZero
  <2>5. Slice(data, bodyAt, length) = frame.buffer
    BY <1>11, <1>13
  <2> QED
    <3>1. PICK rel, seq, ord, chan, count, id, index :
            /\ rel = OrZero(isReliable(r), Int24LE(data, pos + 3))
            /\ seq = OrZero(isSequenced(r), Int24LE(data, seqAt))
            /\ ord = OrZero(isOrdered(r), Int24LE(data, ordAt))
            /\ chan = OrZero(isOrdered(r), data[ordAt + 4])
            /\ count = OrZero(split, Int32BE(data, splAt))
            /\ id = OrZero(split, Int16BE(data, splAt + 4))
            /\ index = OrZero(split, Int32BE(data, splAt + 6))
      OBVIOUS
    <3>2. FieldsAt(data, pos, r, split, length, seqAt, ordAt, splAt, bodyAt)
            = Fields(r, split, rel, seq, ord, chan, count, id, index, frame.buffer)
      BY <3>1, <2>5, FieldsFound
    <3>3. Carried(frame)
            = Fields(r, split, rel, seq, ord, chan, count, id, index, frame.buffer)
      BY <3>1, <2>1, <2>2, <2>3, <2>4, <1>13, <1>14, FieldsCarried
    <3> QED
      BY <3>2, <3>3
<1>20. bodyAt + length = pos + Len(encodeFrame(frame))
  BY <1>11, <1>13
<1> QED
  BY <1>18, <1>19, <1>20, SMT

\* For every MTU the server can be asked for up to 8259, a fragment as long as
\* maxFragmentSize lets it be gets to the other side whole (GamePacketSender.cpp:130).
THEOREM FragmentsReadBack ==
  ASSUME NEW mtu \in Nat, mtu <= 8259, NEW frame \in FrameType,
         Len(frame.buffer) <= maxFragmentSize(mtu),
         NEW data \in Seq(Byte), NEW pos \in Nat, At(data, pos, encodeFrame(frame))
  PROVE  readFrame(data, pos).frame.buffer = frame.buffer
<1>1. Len(frame.buffer) \in Nat
  BY HeaderBytes
<1>2. Len(frame.buffer) <= 8191
  BY <1>1 DEF maxFragmentSize, kFrameOverhead
<1>3. readFrame(data, pos).frame = Carried(frame)
  BY <1>2, FrameReadBack
<1> QED
  BY <1>3 DEF Carried
=============================================================================
