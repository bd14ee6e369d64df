-------------------------- MODULE SendPath_proofs --------------------------
(***************************************************************************)
(* Proofs about SendPath for every MTU and all sizes: the fragments of a   *)
(* batch make it up again, what is lost can be repaired, and the sender    *)
(* with a RakNet peer is a reliable, ordered channel.                      *)
(***************************************************************************)
EXTENDS SendPath, FiniteSetTheorems, SequenceTheorems, TLAPS

-----------------------------------------------------------------------------
(* Fragments *)

LEMMA RoomForBytes == maxFragmentSize \in Nat \ {0}
BY SizeAssumption DEF maxFragmentSize

\* The number of fragments is the size over that of a fragment, rounded up.
LEMMA DivisionRounds ==
  ASSUME NEW a \in Nat, NEW m \in Nat \ {0}
  PROVE  /\ a \div m \in Nat
         /\ m * (a \div m) <= a
         /\ a < m * (a \div m) + m
<1>1. /\ a \div m \in Int /\ a % m \in 0..(m - 1)
      /\ a = m * (a \div m) + (a % m)
  OBVIOUS
<1>2. QED
  BY <1>1

LEMMA SplitRounds ==
  ASSUME NEW s \in Nat \ {0}
  PROVE  LET n == SplitCount(s) m == maxFragmentSize
         IN  /\ n \in Nat \ {0}
             /\ (n - 1) * m < s /\ s <= n * m
             /\ n = 1 <=> s <= m
<1> DEFINE m == maxFragmentSize
           n == SplitCount(s)
<1>1. m \in Nat \ {0}
  BY RoomForBytes
<1> HIDE DEF m
<1>2. PICK a \in Nat : a = s + m - 1
  BY <1>1
<1>3. n = a \div m
  BY <1>2 DEF SplitCount, m
<1>4. /\ n \in Nat /\ m * n <= a /\ a < m * n + m
  BY <1>1, <1>3, DivisionRounds
<1> HIDE DEF n
<1>5. QED
  BY <1>1, <1>2, <1>4 DEF m, n

LEMMA TimesGrows ==
  ASSUME NEW i \in Nat, NEW j \in Nat, i <= j, NEW m \in Nat
  PROVE  i * m <= j * m
OBVIOUS

\* Fragment i begins where the one before it ends, and the last one ends with the batch.
LEMMA PartBounds ==
  ASSUME NEW b \in Batch, NEW i \in 0..(SplitCount(b.size) - 1)
  PROVE  /\ Part(b, i).batch = b
         /\ Part(b, i).start = i * maxFragmentSize
         /\ i < SplitCount(b.size) - 1 => Part(b, i).end = (i + 1) * maxFragmentSize
         /\ i = SplitCount(b.size) - 1 => Part(b, i).end = b.size
<1> DEFINE m == maxFragmentSize
           n == SplitCount(b.size)
           full == (i + 1) * m
<1>1. b.size \in Nat \ {0}
  BY SizeAssumption DEF Batch
<1>2. /\ n \in Nat \ {0} /\ m \in Nat \ {0} /\ (n - 1) * m < b.size /\ b.size <= n * m
  BY <1>1, RoomForBytes, SplitRounds
<1>3. Part(b, i) = [batch |-> b, start |-> i * m, end |-> IF full < b.size THEN full ELSE b.size]
  BY DEF Part
<1> HIDE DEF n, m
<1>4. i < n - 1 => full < b.size
  <2> SUFFICES ASSUME i < n - 1 PROVE full < b.size
    OBVIOUS
  <2>1. i + 1 \in Nat /\ n - 1 \in Nat /\ i + 1 <= n - 1
    BY <1>2 DEF n
  <2>2. (i + 1) * m <= (n - 1) * m
    BY <1>2, <2>1, TimesGrows
  <2>3. (i + 1) * m \in Int /\ (n - 1) * m \in Int
    BY <1>2, <2>1
  <2>4. QED
    BY <1>1, <1>2, <2>2, <2>3
<1>5. i = n - 1 => full = n * m
  <2> SUFFICES ASSUME i = n - 1 PROVE full = n * m
    OBVIOUS
  <2>1. i + 1 = n
    BY <1>2
  <2>2. QED
    BY <2>1
<1>6. i = n - 1 => ~(full < b.size)
  <2>1. n * m \in Int
    BY <1>2
  <2>2. QED
    BY <1>1, <1>2, <1>5, <2>1
<1> HIDE DEF full
<1>7. /\ i < n - 1 => Part(b, i).end = full
      /\ i = n - 1 => Part(b, i).end = b.size
  BY <1>3, <1>4, <1>6
<1>8. Part(b, i).batch = b /\ Part(b, i).start = i * m
  BY <1>3
<1>9. QED
  BY <1>7, <1>8 DEF full, n, m

LEMMA PartsJoin ==
  ASSUME NEW b \in Batch
  PROVE  Joined([i \in 1..SplitCount(b.size) |-> Part(b, i - 1)]) = b
<1> DEFINE n == SplitCount(b.size)
           m == maxFragmentSize
           parts == [i \in 1..n |-> Part(b, i - 1)]
<1>1. n \in Nat \ {0} /\ m \in Nat \ {0}
  BY RoomForBytes, SplitRounds, SizeAssumption DEF Batch
<1>2. Len(parts) = n /\ DOMAIN parts = 1..n
  BY <1>1
<1>3. \A i \in 1..n : /\ parts[i].batch = b
                      /\ parts[i].start = (i - 1) * m
                      /\ i < n => parts[i].end = i * m
                      /\ i = n => parts[i].end = b.size
  <2> SUFFICES ASSUME NEW i \in 1..n
               PROVE  /\ parts[i].batch = b
                      /\ parts[i].start = (i - 1) * m
                      /\ i < n => parts[i].end = i * m
                      /\ i = n => parts[i].end = b.size
    OBVIOUS
  <2>1. PICK j \in 0..(n - 1) : j = i - 1 /\ i = j + 1
    BY <1>1
  <2>2. parts[i] = Part(b, j)
    BY <2>1
  <2> HIDE DEF parts
  <2>3. /\ Part(b, j).batch = b /\ Part(b, j).start = j * m
        /\ j < n - 1 => Part(b, j).end = (j + 1) * m
        /\ j = n - 1 => Part(b, j).end = b.size
    BY PartBounds
  <2> HIDE DEF n, m
  <2>4. QED
    BY <1>1, <2>1, <2>2, <2>3
<1>4. parts[1].start = 0
  <2>1. 1 \in 1..n /\ 0 * m = 0
    BY <1>1
  <2> HIDE DEF n, m, parts
  <2>2. QED
    BY <1>3, <2>1
<1>5. \A i \in 1..(n - 1) : parts[i].end = parts[i + 1].start
  <2> SUFFICES ASSUME NEW i \in 1..(n - 1) PROVE parts[i].end = parts[i + 1].start
    OBVIOUS
  <2>1. i \in 1..n /\ i < n /\ i + 1 \in 1..n /\ (i + 1) - 1 = i
    BY <1>1
  <2> HIDE DEF n, m, parts
  <2>2. QED
    BY <1>3, <2>1
<1>6. parts[1].batch = b /\ parts[n].end = b.size
  BY <1>1, <1>3
<1> HIDE DEF n, m, parts
<1>7. Joined(parts) = b
  BY <1>1, <1>2, <1>3, <1>4, <1>5, <1>6 DEF Joined
<1>8. QED
  BY <1>7 DEF parts, n

\* A frame of fragment i of the batch with a number, of the batches so far.
FrameOf(g, batches, n, i, id) ==
  LET count == SplitCount(batches[n].size)
  IN  /\ g.orderingIndex = n - 1
      /\ g.part = Part(batches[n], i)
      /\ g.split = IF count = 1 THEN NoSplit ELSE [count |-> count, id |-> id, index |-> i]

\* A frame of no batch, or of one.
Good(g, batches, ids) ==
  \/ g.orderingIndex = Unordered /\ g.split = NoSplit
  \/ \E n \in 1..Len(batches), id \in Nat : \E i \in 0..(SplitCount(batches[n].size) - 1) :
       FrameOf(g, batches, n, i, id) /\ (g.split # NoSplit => id < ids)

\* The frames that the server or the client has, or that are under way.
Present == {sentPackets[s] : s \in DOMAIN sentPackets} \cup {d[2] : d \in wire} \cup frames

FramesInv ==
  /\ \A g \in Present : Good(g, flushed, nextSplitId)
  /\ \A g, h \in Present : g.split.id = h.split.id /\ g.split # NoSplit /\ h.split # NoSplit =>
       g.orderingIndex = h.orderingIndex

NumbersInv ==
  /\ nextOrderingIndex = Len(flushed) /\ Len(flushed) <= MaxBatches
  /\ DOMAIN sentPackets \subseteq 0..(nextSeqNum - 1)
  /\ \A d \in wire : d[1] \in 0..(nextSeqNum - 1)
  /\ \A d, e \in wire : d[1] = e[1] => d[2] = e[2]
  /\ \A d \in wire : d[1] \in DOMAIN sentPackets => d[2] = sentPackets[d[1]]
  /\ \A s \in 0..(nextSeqNum - 1) : s \in seen \/ s \in DOMAIN sentPackets

DeliveredInv ==
  /\ delivered \in Seq(Batch)
  /\ Len(delivered) <= Len(flushed)
  /\ \A i \in 1..Len(delivered) : delivered[i] = flushed[i]

IInv == TypeOK /\ NumbersInv /\ FramesInv /\ DeliveredInv

LEMMA InitInv == Init => IInv
<1> SUFFICES ASSUME Init PROVE IInv
  OBVIOUS
<1>1. /\ nextSeqNum = 0 /\ nextReliableIndex = 0 /\ nextOrderingIndex = 0 /\ nextSplitId = 0
      /\ flushed = <<>> /\ wire = {} /\ losses = 0 /\ seen = {} /\ frames = {} /\ delivered = <<>>
      /\ DOMAIN sentPackets = {}
  BY DEF Init
<1>2. TypeOK
  BY <1>1, BoundAssumption DEF TypeOK
<1>3. NumbersInv
  BY <1>1, BoundAssumption DEF NumbersInv
<1>4. FramesInv
  BY <1>1 DEF FramesInv, Present
<1>5. DeliveredInv
  BY <1>1 DEF DeliveredInv
<1>6. QED
  BY <1>2, <1>3, <1>4, <1>5 DEF IInv

-----------------------------------------------------------------------------
(* Sending *)

LEMMA LossesCounted ==
  ASSUME TypeOK, NEW datagrams, IsFiniteSet(DOMAIN datagrams), Transmit(datagrams)
  PROVE  losses' \in 0..MaxLosses
<1>1. PICK lost \in SUBSET DOMAIN datagrams :
        losses + Cardinality(lost) <= MaxLosses /\ losses' = losses + Cardinality(lost)
  BY DEF Transmit
<1>2. Cardinality(lost) \in Nat
  BY FS_Subset, FS_CardinalityType
<1>3. QED
  BY <1>1, <1>2, BoundAssumption DEF TypeOK

\* A frame goes out under the number it is kept by.
LEMMA SendFacts ==
  ASSUME TypeOK, NumbersInv, NEW list, Len(list) \in Nat, SendFrames(list)
  PROVE  /\ nextSeqNum' = nextSeqNum + Len(list) /\ nextSeqNum' \in Nat
         /\ losses' \in 0..MaxLosses
         /\ DOMAIN sentPackets' = DOMAIN sentPackets \cup (nextSeqNum..(nextSeqNum' - 1))
         /\ \A s \in DOMAIN sentPackets : sentPackets'[s] = sentPackets[s]
         /\ \A s \in nextSeqNum..(nextSeqNum' - 1) :
              s - nextSeqNum + 1 \in 1..Len(list) /\ sentPackets'[s] = list[s - nextSeqNum + 1]
         /\ \A d \in wire' :
              d \in wire \/ (d[1] \in nextSeqNum..(nextSeqNum' - 1) /\ d[2] = sentPackets'[d[1]])
<1> DEFINE datagrams == [seq \in nextSeqNum..(nextSeqNum + Len(list) - 1) |->
                           list[seq - nextSeqNum + 1]]
<1>1. /\ nextSeqNum' = nextSeqNum + Len(list)
      /\ sentPackets' = [seq \in DOMAIN sentPackets \cup DOMAIN datagrams |->
                           IF seq \in DOMAIN datagrams THEN datagrams[seq] ELSE sentPackets[seq]]
      /\ Transmit(datagrams)
  BY DEF SendFrames
<1>2. nextSeqNum \in Nat /\ nextSeqNum' \in Nat
  BY <1>1 DEF TypeOK
<1>3. /\ DOMAIN datagrams = nextSeqNum..(nextSeqNum' - 1)
      /\ \A s \in DOMAIN datagrams : datagrams[s] = list[s - nextSeqNum + 1]
  BY <1>1, <1>2
<1> HIDE DEF datagrams
<1>4. \A s \in DOMAIN datagrams : s \notin DOMAIN sentPackets /\ s - nextSeqNum + 1 \in 1..Len(list)
  BY <1>1, <1>2, <1>3 DEF NumbersInv
<1>5. losses' \in 0..MaxLosses
  <2>1. IsFiniteSet(DOMAIN datagrams)
    BY <1>2, <1>3, FS_Interval
  <2>2. QED
    BY <1>1, <2>1, LossesCounted
<1>6. /\ DOMAIN sentPackets' = DOMAIN sentPackets \cup DOMAIN datagrams
      /\ \A s \in DOMAIN sentPackets : sentPackets'[s] = sentPackets[s]
      /\ \A s \in DOMAIN datagrams : sentPackets'[s] = datagrams[s]
  BY <1>1, <1>4
<1>7. \A d \in wire' : d \in wire \/ (d[1] \in DOMAIN datagrams /\ d[2] = sentPackets'[d[1]])
  <2>1. PICK lost \in SUBSET DOMAIN datagrams :
          wire' = wire \cup {<<seq, datagrams[seq]>> : seq \in DOMAIN datagrams \ lost}
    BY <1>1 DEF Transmit
  <2>2. QED
    BY <1>6, <2>1
<1>8. DOMAIN datagrams = nextSeqNum..(nextSeqNum' - 1)
  BY <1>3
<1>9. \A s \in nextSeqNum..(nextSeqNum' - 1) :
        s - nextSeqNum + 1 \in 1..Len(list) /\ sentPackets'[s] = list[s - nextSeqNum + 1]
  BY <1>3, <1>4, <1>6
<1>10. DOMAIN sentPackets' = DOMAIN sentPackets \cup (nextSeqNum..(nextSeqNum' - 1))
  BY <1>6, <1>8
<1>11. \A d \in wire' :
       d \in wire \/ (d[1] \in nextSeqNum..(nextSeqNum' - 1) /\ d[2] = sentPackets'[d[1]])
  BY <1>7, <1>8
<1>12. QED
  BY <1>1, <1>2, <1>5, <1>6, <1>9, <1>10, <1>11

LEMMA Intervals ==
  ASSUME NEW p \in Nat, NEW q \in Nat, p <= q
  PROVE  /\ \A s \in 0..(q - 1) : s \in 0..(p - 1) \/ s \in p..(q - 1)
         /\ 0..(p - 1) \subseteq 0..(q - 1)
         /\ p..(q - 1) \subseteq 0..(q - 1)
         /\ \A s \in 0..(p - 1) : s \notin p..(q - 1)
OBVIOUS

LEMMA SendNumbers ==
  ASSUME TypeOK, NumbersInv, NEW list, Len(list) \in Nat, SendFrames(list), seen' = seen,
         nextOrderingIndex' = Len(flushed'), Len(flushed') <= MaxBatches
  PROVE  NumbersInv'
<1>1. nextSeqNum \in Nat /\ nextSeqNum' \in Nat /\ nextSeqNum <= nextSeqNum'
  BY SendFacts DEF TypeOK
<1>2. \A s \in 0..(nextSeqNum' - 1) : s \in 0..(nextSeqNum - 1) \/ s \in nextSeqNum..(nextSeqNum' - 1)
  BY <1>1, Intervals
<1>3. /\ DOMAIN sentPackets' = DOMAIN sentPackets \cup (nextSeqNum..(nextSeqNum' - 1))
      /\ \A s \in DOMAIN sentPackets : sentPackets'[s] = sentPackets[s]
      /\ \A d \in wire' :
           d \in wire \/ (d[1] \in nextSeqNum..(nextSeqNum' - 1) /\ d[2] = sentPackets'[d[1]])
  BY SendFacts
<1>4. /\ 0..(nextSeqNum - 1) \subseteq 0..(nextSeqNum' - 1)
      /\ nextSeqNum..(nextSeqNum' - 1) \subseteq 0..(nextSeqNum' - 1)
      /\ \A s \in 0..(nextSeqNum - 1) : s \notin nextSeqNum..(nextSeqNum' - 1)
  BY <1>1, Intervals
<1>5. DOMAIN sentPackets' \subseteq 0..(nextSeqNum' - 1)
  BY <1>3, <1>4 DEF NumbersInv
<1>6. \A d \in wire' : d[1] \in 0..(nextSeqNum' - 1)
  BY <1>3, <1>4 DEF NumbersInv
<1>7. \A d \in wire' : d[1] \in DOMAIN sentPackets' => d[2] = sentPackets'[d[1]]
  BY <1>3, <1>4 DEF NumbersInv
<1>8. \A d, e \in wire' : d[1] = e[1] => d[2] = e[2]
  BY <1>3, <1>4 DEF NumbersInv
<1>9. \A s \in 0..(nextSeqNum' - 1) : s \in seen' \/ s \in DOMAIN sentPackets'
  BY <1>2, <1>3 DEF NumbersInv
<1>10. QED
  BY <1>5, <1>6, <1>7, <1>8, <1>9 DEF NumbersInv

LEMMA SendPresent ==
  ASSUME TypeOK, NumbersInv, NEW list, Len(list) \in Nat, SendFrames(list), frames' = frames
  PROVE  Present' \subseteq Present \cup {list[i] : i \in 1..Len(list)}
<1>1. \A s \in DOMAIN sentPackets' :
        sentPackets'[s] \in {sentPackets[r] : r \in DOMAIN sentPackets} \cup {list[i] : i \in 1..Len(list)}
  BY SendFacts
<1>2. \A d \in wire' : d \in wire \/ (d[1] \in DOMAIN sentPackets' /\ d[2] = sentPackets'[d[1]])
  BY SendFacts
<1>3. QED
  BY <1>1, <1>2 DEF Present

\* What is good stays so, whatever batches and split ids there are to come.
LEMMA GoodKept ==
  ASSUME NEW g, NEW batches \in Seq(Batch), NEW b \in Batch, NEW ids \in Nat, NEW more \in Nat, ids <= more,
         Good(g, batches, ids)
  PROVE  Good(g, batches, more) /\ Good(g, Append(batches, b), more)
<1>1. CASE g.orderingIndex = Unordered /\ g.split = NoSplit
  BY <1>1 DEF Good
<1>2. CASE \E n \in 1..Len(batches), id \in Nat : \E i \in 0..(SplitCount(batches[n].size) - 1) :
             FrameOf(g, batches, n, i, id) /\ (g.split # NoSplit => id < ids)
  <2>1. PICK n \in 1..Len(batches), id \in Nat : \E i \in 0..(SplitCount(batches[n].size) - 1) :
          FrameOf(g, batches, n, i, id) /\ (g.split # NoSplit => id < ids)
    BY <1>2
  <2>2. PICK i \in 0..(SplitCount(batches[n].size) - 1) :
          FrameOf(g, batches, n, i, id) /\ (g.split # NoSplit => id < ids)
    BY <2>1
  <2>3. g.split # NoSplit => id < more
    BY <2>2
  <2>4. n \in 1..Len(Append(batches, b)) /\ Append(batches, b)[n] = batches[n]
    OBVIOUS
  <2>5. FrameOf(g, Append(batches, b), n, i, id)
    BY <2>2, <2>4 DEF FrameOf
  <2>6. i \in 0..(SplitCount(Append(batches, b)[n].size) - 1)
    BY <2>4
  <2>7. Good(g, Append(batches, b), more)
    BY <2>3, <2>4, <2>5, <2>6 DEF Good
  <2>8. Good(g, batches, more)
    BY <2>2, <2>3 DEF Good
  <2>9. QED
    BY <2>7, <2>8
<1>3. QED
  BY <1>1, <1>2 DEF Good

LEMMA BatchFacts ==
  ASSUME TypeOK, NEW batch \in Batch
  PROVE  LET list == BatchFrames(batch) n == SplitCount(batch.size)
         IN  /\ n \in Nat \ {0} /\ Len(list) = n
             /\ \A k \in 1..n :
                  /\ list[k].orderingIndex = nextOrderingIndex
                  /\ list[k].part = Part(batch, k - 1)
                  /\ list[k].split = IF n = 1 THEN NoSplit
                                     ELSE [count |-> n, id |-> nextSplitId, index |-> k - 1]
<1> DEFINE n == SplitCount(batch.size)
<1>1. n \in Nat \ {0}
  BY SplitRounds, SizeAssumption DEF Batch
<1> HIDE DEF n
<1>2. BatchFrames(batch) =
        [k \in 1..n |-> Frame(nextReliableIndex + k - 1, nextOrderingIndex,
                              IF n = 1 THEN NoSplit
                              ELSE [count |-> n, id |-> nextSplitId, index |-> k - 1],
                              Part(batch, k - 1))]
  BY DEF BatchFrames, n
<1>3. Len(BatchFrames(batch)) = n
  BY <1>1, <1>2
<1>4. \A k \in 1..n :
        /\ BatchFrames(batch)[k].orderingIndex = nextOrderingIndex
        /\ BatchFrames(batch)[k].part = Part(batch, k - 1)
        /\ BatchFrames(batch)[k].split = IF n = 1 THEN NoSplit
                                         ELSE [count |-> n, id |-> nextSplitId, index |-> k - 1]
  BY <1>2 DEF Frame
<1>5. QED
  BY <1>1, <1>3, <1>4 DEF n

\* A split frame has an id that was given out.
LEMMA SplitIdKnown ==
  ASSUME NEW g, NEW batches, NEW ids \in Nat, Good(g, batches, ids), g.split # NoSplit
  PROVE  g.split.id < ids /\ g.orderingIndex # Unordered
<1>1. PICK n \in 1..Len(batches), id \in Nat : \E i \in 0..(SplitCount(batches[n].size) - 1) :
        FrameOf(g, batches, n, i, id) /\ (g.split # NoSplit => id < ids)
  BY DEF Good
<1>2. PICK i \in 0..(SplitCount(batches[n].size) - 1) :
        FrameOf(g, batches, n, i, id) /\ (g.split # NoSplit => id < ids)
  BY <1>1
<1>3. g.split = [count |-> SplitCount(batches[n].size), id |-> id, index |-> i]
  BY <1>2 DEF FrameOf
<1>4. g.orderingIndex = n - 1
  BY <1>2 DEF FrameOf
<1>5. n - 1 # Unordered
  BY DEF Unordered
<1>6. QED
  BY <1>2, <1>3, <1>4, <1>5

\* Nothing new but frames without an order.
LEMMA FramesKept ==
  ASSUME TypeOK, FramesInv, flushed' = flushed, nextSplitId' = nextSplitId,
         \A g \in Present' : g \in Present \/ (g.orderingIndex = Unordered /\ g.split = NoSplit)
  PROVE  FramesInv'
<1>1. \A g \in Present' : Good(g, flushed', nextSplitId')
  BY DEF FramesInv, Good
<1>2. \A g, h \in Present' : g.split.id = h.split.id /\ g.split # NoSplit /\ h.split # NoSplit =>
        g.orderingIndex = h.orderingIndex
  BY DEF FramesInv
<1>3. QED
  BY <1>1, <1>2 DEF FramesInv

LEMMA FlushStep ==
  ASSUME IInv, NEW size \in Sizes, flushGamePackets(size)
  PROVE  IInv'
<1> DEFINE batch == [number |-> Len(flushed) + 1, size |-> size]
           list == BatchFrames(batch)
           n == SplitCount(size)
<1>1. /\ Len(flushed) < MaxBatches
      /\ SendFrames(list)
      /\ nextReliableIndex' = nextReliableIndex + n
      /\ nextOrderingIndex' = nextOrderingIndex + 1
      /\ nextSplitId' = IF size > maxFragmentSize THEN nextSplitId + 1 ELSE nextSplitId
      /\ flushed' = Append(flushed, batch)
      /\ UNCHANGED client
  BY DEF flushGamePackets
<1>2. seen' = seen /\ frames' = frames /\ delivered' = delivered
  BY <1>1 DEF client
<1>3. TypeOK /\ NumbersInv /\ FramesInv /\ DeliveredInv
  BY DEF IInv
<1>4. flushed \in Seq(Batch) /\ Len(flushed) \in Nat /\ nextSplitId \in Nat
  BY <1>3 DEF TypeOK
<1>5. batch \in Batch /\ batch.size = size
  BY <1>1, <1>4, BoundAssumption DEF Batch
<1>6. n \in Nat \ {0} /\ (n = 1 <=> size <= maxFragmentSize)
  BY SizeAssumption, SplitRounds
<1>7. /\ Len(list) = n
      /\ \A k \in 1..n :
           /\ list[k].orderingIndex = nextOrderingIndex
           /\ list[k].part = Part(batch, k - 1)
           /\ list[k].split = IF n = 1 THEN NoSplit
                              ELSE [count |-> n, id |-> nextSplitId, index |-> k - 1]
  BY <1>3, <1>5, BatchFacts
<1> HIDE DEF batch, list, n
<1>8. /\ flushed' \in Seq(Batch) /\ Len(flushed') = Len(flushed) + 1
      /\ flushed'[Len(flushed')] = batch
      /\ \A i \in 1..Len(flushed) : flushed'[i] = flushed[i]
  BY <1>1, <1>4, <1>5
<1>9. size > maxFragmentSize <=> n # 1
  BY <1>6, RoomForBytes, SizeAssumption
<1>10. nextSplitId' = (IF n # 1 THEN nextSplitId + 1 ELSE nextSplitId)
       /\ nextSplitId' \in Nat /\ nextSplitId <= nextSplitId'
  BY <1>1, <1>4, <1>9
<1>11. NumbersInv'
  <2>1. nextOrderingIndex' = Len(flushed') /\ Len(flushed') <= MaxBatches
    BY <1>1, <1>3, <1>4, <1>8, BoundAssumption DEF NumbersInv
  <2>2. QED
    BY <1>1, <1>2, <1>3, <1>6, <1>7, <2>1, SendNumbers
<1>12. TypeOK'
  <2>1. nextSeqNum' \in Nat /\ losses' \in 0..MaxLosses /\ nextSeqNum \in Nat /\ nextSeqNum <= nextSeqNum'
    BY <1>1, <1>3, <1>6, <1>7, SendFacts DEF TypeOK
  <2>2. seen' \subseteq 0..(nextSeqNum' - 1)
    BY <1>2, <1>3, <2>1, Intervals DEF TypeOK
  <2>3. nextReliableIndex' \in Nat /\ nextOrderingIndex' \in Nat
    BY <1>1, <1>3, <1>6 DEF TypeOK
  <2>4. QED
    BY <1>8, <1>10, <1>11, <2>1, <2>2, <2>3 DEF TypeOK, NumbersInv
<1>13. DeliveredInv'
  BY <1>2, <1>3, <1>4, <1>8 DEF DeliveredInv
<1>14. Present' \subseteq Present \cup {list[k] : k \in 1..n}
  BY <1>1, <1>2, <1>3, <1>6, <1>7, SendPresent
<1>15. \A g \in Present : Good(g, flushed', nextSplitId')
  BY <1>1, <1>3, <1>4, <1>5, <1>10, GoodKept DEF FramesInv
<1>16. \A k \in 1..n : Good(list[k], flushed', nextSplitId')
  <2> SUFFICES ASSUME NEW k \in 1..n PROVE Good(list[k], flushed', nextSplitId')
    OBVIOUS
  <2>1. k - 1 \in 0..(n - 1)
    BY <1>6
  <2>2. Len(flushed') \in 1..Len(flushed')
    BY <1>4, <1>8
  <2>3. SplitCount(flushed'[Len(flushed')].size) = n
    BY <1>5, <1>8 DEF n
  <2>4. list[k].orderingIndex = Len(flushed') - 1
    <3>1. list[k].orderingIndex = nextOrderingIndex
      BY <1>7
    <3>2. nextOrderingIndex = Len(flushed)
      BY <1>3 DEF NumbersInv
    <3>3. QED
      BY <1>4, <1>8, <3>1, <3>2
  <2>5. FrameOf(list[k], flushed', Len(flushed'), k - 1, nextSplitId)
    <3>1. list[k].part = Part(flushed'[Len(flushed')], k - 1)
      BY <1>7, <1>8
    <3>2. list[k].split = IF n = 1 THEN NoSplit ELSE [count |-> n, id |-> nextSplitId, index |-> k - 1]
      BY <1>7
    <3>3. QED
      BY <2>3, <2>4, <3>1, <3>2 DEF FrameOf
  <2>6. list[k].split # NoSplit => nextSplitId < nextSplitId'
    <3>1. CASE n = 1
      BY <1>7, <3>1
    <3>2. CASE n # 1
      BY <1>4, <1>10, <3>2
    <3>3. QED
      BY <3>1, <3>2
  <2>7. QED
    BY <1>4, <2>1, <2>2, <2>3, <2>5, <2>6 DEF Good
<1>17. FramesInv'
  <2>1. \A g \in Present' : Good(g, flushed', nextSplitId')
    BY <1>14, <1>15, <1>16
  <2>2. ASSUME NEW g \in Present', NEW h \in Present',
               g.split.id = h.split.id, g.split # NoSplit, h.split # NoSplit
        PROVE  g.orderingIndex = h.orderingIndex
    <3>1. \A f \in Present : f.split # NoSplit => f.split.id < nextSplitId
      BY <1>3, <1>4, SplitIdKnown DEF FramesInv
    <3>2. \A f \in {list[k] : k \in 1..n} :
            f.orderingIndex = nextOrderingIndex /\ (f.split # NoSplit => f.split.id = nextSplitId)
      <4> SUFFICES ASSUME NEW k \in 1..n
                   PROVE  /\ list[k].orderingIndex = nextOrderingIndex
                          /\ list[k].split # NoSplit => list[k].split.id = nextSplitId
        OBVIOUS
      <4>1. list[k].orderingIndex = nextOrderingIndex
        BY <1>7
      <4>2. list[k].split = IF n = 1 THEN NoSplit ELSE [count |-> n, id |-> nextSplitId, index |-> k - 1]
        BY <1>7
      <4>3. list[k].split # NoSplit => list[k].split.id = nextSplitId
        BY <4>2
      <4>4. QED
        BY <4>1, <4>3
    <3>3. CASE g \in Present /\ h \in Present
      BY <1>3, <2>2, <3>3 DEF FramesInv
    <3>4. CASE g \in {list[k] : k \in 1..n} /\ h \in {list[k] : k \in 1..n}
      BY <3>2, <3>4
    <3>5. CASE g \in Present /\ h \in {list[k] : k \in 1..n}
      BY <1>4, <2>2, <3>1, <3>2, <3>5
    <3>6. CASE h \in Present /\ g \in {list[k] : k \in 1..n}
      BY <1>4, <2>2, <3>1, <3>2, <3>6
    <3>7. QED
      BY <1>14, <3>3, <3>4, <3>5, <3>6
  <2>3. QED
    BY <2>1, <2>2 DEF FramesInv
<1>18. QED
  BY <1>11, <1>12, <1>13, <1>17 DEF IInv

-----------------------------------------------------------------------------
(* The other steps *)

\* One frame out of order, of no batch.
LEMMA UnorderedStep ==
  ASSUME IInv, NEW g, g.orderingIndex = Unordered, g.split = NoSplit, SendFrames(<<g>>),
         nextReliableIndex' \in Nat, UNCHANGED <<nextOrderingIndex, nextSplitId, flushed, client>>
  PROVE  IInv'
<1> DEFINE list == <<g>>
<1>1. Len(list) = 1 /\ list[1] = g /\ SendFrames(list)
  OBVIOUS
<1> HIDE DEF list
<1>2. /\ seen' = seen /\ frames' = frames /\ delivered' = delivered
      /\ nextOrderingIndex' = nextOrderingIndex /\ nextSplitId' = nextSplitId /\ flushed' = flushed
  BY DEF client
<1>3. TypeOK /\ NumbersInv /\ FramesInv /\ DeliveredInv
  BY DEF IInv
<1>4. NumbersInv'
  BY <1>1, <1>2, <1>3, SendNumbers DEF NumbersInv
<1>5. TypeOK'
  <2>1. nextSeqNum' \in Nat /\ losses' \in 0..MaxLosses /\ nextSeqNum \in Nat /\ nextSeqNum <= nextSeqNum'
    BY <1>1, <1>3, SendFacts DEF TypeOK
  <2>2. seen' \subseteq 0..(nextSeqNum' - 1)
    BY <1>2, <1>3, <2>1, Intervals DEF TypeOK
  <2>3. QED
    BY <1>2, <1>3, <1>4, <2>1, <2>2 DEF TypeOK, NumbersInv
<1>6. Present' \subseteq Present \cup {list[i] : i \in 1..Len(list)}
  BY <1>1, <1>2, <1>3, SendPresent
<1>7. FramesInv'
  BY <1>1, <1>2, <1>3, <1>6, FramesKept
<1>8. DeliveredInv'
  BY <1>2, <1>3 DEF DeliveredInv
<1>9. QED
  BY <1>4, <1>5, <1>7, <1>8 DEF IInv

LEMMA AcceptedStep ==
  ASSUME IInv, sendConnectionRequestAccepted
  PROVE  IInv'
<1> DEFINE g == Frame(nextReliableIndex, Unordered, NoSplit, NoPart)
<1>1. g.orderingIndex = Unordered /\ g.split = NoSplit
  BY DEF Frame
<1>2. nextReliableIndex' \in Nat
  BY DEF sendConnectionRequestAccepted, IInv, TypeOK
<1>3. QED
  BY <1>1, <1>2, UnorderedStep DEF sendConnectionRequestAccepted

LEMMA PongStep ==
  ASSUME IInv, sendConnectedPong
  PROVE  IInv'
<1>1. Pong.orderingIndex = Unordered /\ Pong.split = NoSplit
  BY DEF Pong, Frame
<1>2. nextReliableIndex' \in Nat
  BY DEF sendConnectedPong, IInv, TypeOK
<1>3. QED
  BY <1>1, <1>2, UnorderedStep DEF sendConnectedPong

\* An acknowledged datagram is not kept any longer; the client has it.
LEMMA AckStep ==
  ASSUME IInv, NEW seq \in seen, ReceiveAck(seq)
  PROVE  IInv'
<1>1. /\ sentPackets' = [s \in DOMAIN sentPackets \ {seq} |-> sentPackets[s]]
      /\ UNCHANGED <<nextSeqNum, nextReliableIndex, nextOrderingIndex, nextSplitId,
                     flushed, wire, losses, client>>
  BY DEF ReceiveAck
<1>2. seen' = seen /\ frames' = frames /\ delivered' = delivered
  BY <1>1 DEF client
<1>3. /\ DOMAIN sentPackets' = DOMAIN sentPackets \ {seq}
      /\ \A s \in DOMAIN sentPackets' : sentPackets'[s] = sentPackets[s]
  BY <1>1
<1>4. TypeOK /\ NumbersInv /\ FramesInv /\ DeliveredInv
  BY DEF IInv
<1>5. NumbersInv'
  BY <1>1, <1>2, <1>3, <1>4 DEF NumbersInv
<1>6. TypeOK'
  BY <1>1, <1>2, <1>3, <1>4 DEF TypeOK
<1>7. Present' \subseteq Present
  BY <1>1, <1>2, <1>3 DEF Present
<1>8. FramesInv'
  BY <1>1, <1>4, <1>7, FramesKept
<1>9. DeliveredInv'
  BY <1>1, <1>2, <1>4 DEF DeliveredInv
<1>10. QED
  BY <1>5, <1>6, <1>8, <1>9 DEF IInv

\* What is sent again is what was sent under that number.
LEMMA NackStep ==
  ASSUME IInv, NEW seq \in MissingNow, ReceiveNack(seq)
  PROVE  IInv'
<1> DEFINE datagrams == [s \in {seq} |-> sentPackets[s]]
<1>1. /\ seq \in DOMAIN sentPackets
      /\ Transmit(datagrams)
      /\ UNCHANGED <<sender, flushed, client>>
  BY DEF ReceiveNack
<1>2. /\ nextSeqNum' = nextSeqNum /\ nextReliableIndex' = nextReliableIndex
      /\ nextOrderingIndex' = nextOrderingIndex /\ nextSplitId' = nextSplitId
      /\ sentPackets' = sentPackets /\ flushed' = flushed
      /\ seen' = seen /\ frames' = frames /\ delivered' = delivered
  BY <1>1 DEF sender, client
<1>3. DOMAIN datagrams = {seq} /\ datagrams[seq] = sentPackets[seq]
  OBVIOUS
<1> HIDE DEF datagrams
<1>4. TypeOK /\ NumbersInv /\ FramesInv /\ DeliveredInv
  BY DEF IInv
<1>5. losses' \in 0..MaxLosses
  <2>1. IsFiniteSet(DOMAIN datagrams)
    BY <1>3, FS_Singleton
  <2>2. QED
    BY <1>1, <1>4, <2>1, LossesCounted
<1>6. \A d \in wire' : d \in wire \/ (d[1] = seq /\ d[2] = sentPackets[seq])
  <2>1. PICK lost \in SUBSET DOMAIN datagrams :
          wire' = wire \cup {<<s, datagrams[s]>> : s \in DOMAIN datagrams \ lost}
    BY <1>1 DEF Transmit
  <2>2. QED
    BY <1>3, <2>1
<1>7. NumbersInv'
  <2>1. \A d \in wire' : d[1] \in 0..(nextSeqNum' - 1)
    BY <1>1, <1>2, <1>4, <1>6 DEF NumbersInv
  <2>2. \A d \in wire' : d[1] \in DOMAIN sentPackets' => d[2] = sentPackets'[d[1]]
    BY <1>1, <1>2, <1>4, <1>6 DEF NumbersInv
  <2>3. \A d, e \in wire' : d[1] = e[1] => d[2] = e[2]
    BY <1>1, <1>4, <1>6 DEF NumbersInv
  <2>4. QED
    BY <1>2, <1>4, <2>1, <2>2, <2>3 DEF NumbersInv
<1>8. TypeOK'
  BY <1>2, <1>4, <1>5 DEF TypeOK
<1>9. Present' \subseteq Present
  BY <1>1, <1>2, <1>6 DEF Present
<1>10. FramesInv'
  BY <1>2, <1>4, <1>9, FramesKept
<1>11. DeliveredInv'
  BY <1>2, <1>4 DEF DeliveredInv
<1>12. QED
  BY <1>7, <1>8, <1>10, <1>11 DEF IInv

LEMMA ReceiveStep ==
  ASSUME IInv, NEW datagram \in wire, ClientReceive(datagram)
  PROVE  IInv'
<1>1. /\ seen' = seen \cup {datagram[1]}
      /\ frames' \subseteq frames \cup {datagram[2]}
      /\ UNCHANGED <<sender, flushed, wire, losses, delivered>>
  BY DEF ClientReceive
<1>2. /\ nextSeqNum' = nextSeqNum /\ nextReliableIndex' = nextReliableIndex
      /\ nextOrderingIndex' = nextOrderingIndex /\ nextSplitId' = nextSplitId
      /\ sentPackets' = sentPackets /\ flushed' = flushed
      /\ wire' = wire /\ losses' = losses /\ delivered' = delivered
  BY <1>1 DEF sender
<1>3. TypeOK /\ NumbersInv /\ FramesInv /\ DeliveredInv
  BY DEF IInv
<1>4. NumbersInv'
  BY <1>1, <1>2, <1>3 DEF NumbersInv
<1>5. TypeOK'
  <2>1. seen' \subseteq 0..(nextSeqNum' - 1)
    BY <1>1, <1>2, <1>3 DEF TypeOK, NumbersInv
  <2>2. QED
    BY <1>2, <1>3, <2>1 DEF TypeOK
<1>6. Present' \subseteq Present
  BY <1>1, <1>2 DEF Present
<1>7. FramesInv'
  BY <1>2, <1>3, <1>6, FramesKept
<1>8. DeliveredInv'
  BY <1>2, <1>3 DEF DeliveredInv
<1>9. QED
  BY <1>4, <1>5, <1>7, <1>8 DEF IInv

-----------------------------------------------------------------------------
(* What the client hands up *)

\* The message of a frame that can be handed up is the next batch.
LEMMA MessageOfBatch ==
  ASSUME IInv, NEW f \in frames, f.orderingIndex = Len(delivered), Complete(f)
  PROVE  /\ Len(delivered) + 1 \in 1..Len(flushed)
         /\ Joined(Message(f)) = flushed[Len(delivered) + 1]
<1>1. TypeOK /\ NumbersInv /\ FramesInv /\ DeliveredInv
  BY DEF IInv
<1>2. flushed \in Seq(Batch) /\ Len(delivered) \in Nat
  BY <1>1 DEF TypeOK, DeliveredInv
<1>3. f \in Present /\ Good(f, flushed, nextSplitId)
  BY <1>1 DEF Present, FramesInv
<1>4. f.orderingIndex # Unordered
  BY <1>2 DEF Unordered
<1>5. PICK m \in 1..Len(flushed), id \in Nat : \E i \in 0..(SplitCount(flushed[m].size) - 1) :
        FrameOf(f, flushed, m, i, id)
  BY <1>3, <1>4 DEF Good
<1>6. PICK i \in 0..(SplitCount(flushed[m].size) - 1) : FrameOf(f, flushed, m, i, id)
  BY <1>5
<1>7. m = Len(delivered) + 1
  BY <1>2, <1>6 DEF FrameOf
<1> DEFINE b == flushed[m]
           n == SplitCount(b.size)
<1>8. b \in Batch /\ n \in Nat \ {0}
  <2>1. b \in Batch
    BY <1>2
  <2>2. b.size \in Nat \ {0}
    BY <2>1, SizeAssumption DEF Batch
  <2>3. QED
    BY <2>1, <2>2, SplitRounds
<1>9. /\ f.part = Part(b, i)
      /\ f.split = IF n = 1 THEN NoSplit ELSE [count |-> n, id |-> id, index |-> i]
  BY <1>6 DEF FrameOf
<1>10. i \in 0..(n - 1)
  BY <1>6
<1> HIDE DEF b, n
<1>11. Message(f) = [k \in 1..n |-> Part(b, k - 1)]
  <2>1. CASE n = 1
    <3>1. f.split = NoSplit /\ f.split.count = 1 /\ i = 0
      BY <1>9, <1>10, <2>1 DEF NoSplit
    <3>2. Message(f) = [k \in 1..1 |-> f.part]
      BY <3>1 DEF Message
    <3>3. \A k \in 1..1 : f.part = Part(b, k - 1)
      BY <1>9, <3>1
    <3>4. QED
      BY <2>1, <3>2, <3>3
  <2>2. CASE n # 1
    <3>1. f.split = [count |-> n, id |-> id, index |-> i]
      BY <1>9, <2>2
    <3>2. f.split # NoSplit /\ f.split.count = n /\ f.split.id = id
      BY <2>2, <3>1 DEF NoSplit
    <3>3. \A j : [f.split EXCEPT !.index = j] = [count |-> n, id |-> id, index |-> j]
      BY <3>1
    <3>4. ASSUME NEW k \in 1..n
          PROVE  (CHOOSE g \in frames : g.split = [f.split EXCEPT !.index = k - 1]).part = Part(b, k - 1)
      <4> DEFINE g == CHOOSE h \in frames : h.split = [f.split EXCEPT !.index = k - 1]
      <4>1. k - 1 \in 0..(n - 1)
        BY <1>8
      <4>2. \E h \in frames : h.split = [f.split EXCEPT !.index = k - 1]
        BY <3>2, <4>1 DEF Complete
      <4>3. g \in frames /\ g.split = [count |-> n, id |-> id, index |-> k - 1]
        BY <3>3, <4>2
      <4> HIDE DEF g
      <4>4. g.split # NoSplit /\ g.split.id = id /\ g.split.index = k - 1
        BY <2>2, <4>3 DEF NoSplit
      <4>5. g \in Present
        BY <4>3 DEF Present
      <4>6. g.orderingIndex = f.orderingIndex
        BY <1>1, <1>3, <3>2, <4>4, <4>5 DEF FramesInv
      <4>7. Good(g, flushed, nextSplitId)
        BY <1>1, <4>5 DEF FramesInv
      <4>8. PICK q \in 1..Len(flushed), gid \in Nat : \E j \in 0..(SplitCount(flushed[q].size) - 1) :
              FrameOf(g, flushed, q, j, gid)
        BY <4>4, <4>7 DEF Good
      <4>9. PICK j \in 0..(SplitCount(flushed[q].size) - 1) : FrameOf(g, flushed, q, j, gid)
        BY <4>8
      <4>10. q = m
        BY <1>2, <1>6, <4>6, <4>9 DEF FrameOf
      <4>11. g.part = Part(b, j)
        BY <4>9, <4>10 DEF FrameOf, b
      <4>12. g.split = [count |-> SplitCount(flushed[q].size), id |-> gid, index |-> j]
        BY <4>4, <4>9 DEF FrameOf
      <4>13. j = k - 1
        BY <4>4, <4>12
      <4>14. QED
        BY <4>11, <4>13 DEF g
    <3>5. Message(f) = [k \in 1..n |->
                          (CHOOSE g \in frames : g.split = [f.split EXCEPT !.index = k - 1]).part]
      BY <3>2 DEF Message
    <3>6. QED
      BY <3>4, <3>5
  <2>3. QED
    BY <2>1, <2>2
<1>12. Joined(Message(f)) = b
  BY <1>8, <1>11, PartsJoin DEF n
<1>13. QED
  BY <1>5, <1>7, <1>12 DEF b

LEMMA HandUpStep ==
  ASSUME IInv, ClientDeliver
  PROVE  /\ IInv'
         /\ flushed' = flushed
         /\ Len(delivered) + 1 \in 1..Len(flushed)
         /\ delivered' = Append(delivered, flushed[Len(delivered) + 1])
<1>1. PICK f \in frames : /\ f.orderingIndex = Len(delivered)
                          /\ Complete(f)
                          /\ delivered' = Append(delivered, Joined(Message(f)))
                          /\ UNCHANGED <<sender, flushed, wire, losses, requests, pongs, seen, frames>>
  BY DEF ClientDeliver
<1>2. /\ nextSeqNum' = nextSeqNum /\ nextReliableIndex' = nextReliableIndex
      /\ nextOrderingIndex' = nextOrderingIndex /\ nextSplitId' = nextSplitId
      /\ sentPackets' = sentPackets /\ flushed' = flushed
      /\ wire' = wire /\ losses' = losses /\ seen' = seen /\ frames' = frames
  BY <1>1 DEF sender
<1>3. /\ Len(delivered) + 1 \in 1..Len(flushed)
      /\ Joined(Message(f)) = flushed[Len(delivered) + 1]
  BY <1>1, MessageOfBatch
<1>4. delivered' = Append(delivered, flushed[Len(delivered) + 1])
  BY <1>1, <1>3
<1>5. TypeOK /\ NumbersInv /\ FramesInv /\ DeliveredInv
  BY DEF IInv
<1>6. DeliveredInv'
  <2>1. delivered \in Seq(Batch) /\ flushed \in Seq(Batch)
    BY <1>5 DEF DeliveredInv, TypeOK
  <2>2. flushed[Len(delivered) + 1] \in Batch
    BY <1>3, <2>1
  <2>3. /\ delivered' \in Seq(Batch) /\ Len(delivered') = Len(delivered) + 1
        /\ \A i \in 1..Len(delivered) : delivered'[i] = delivered[i]
        /\ delivered'[Len(delivered) + 1] = flushed[Len(delivered) + 1]
    BY <1>4, <2>1, <2>2
  <2>4. \A i \in 1..Len(delivered') : i \in 1..Len(delivered) \/ i = Len(delivered) + 1
    BY <2>1, <2>3
  <2>5. \A i \in 1..Len(delivered') : delivered'[i] = flushed[i]
    BY <1>5, <2>3, <2>4 DEF DeliveredInv
  <2>6. QED
    BY <1>2, <1>3, <2>3, <2>5 DEF DeliveredInv
<1>7. NumbersInv'
  BY <1>2, <1>5 DEF NumbersInv
<1>8. TypeOK'
  BY <1>2, <1>5 DEF TypeOK
<1>9. Present' \subseteq Present
  BY <1>2 DEF Present
<1>10. FramesInv'
  BY <1>2, <1>5, <1>9, FramesKept
<1>11. QED
  BY <1>2, <1>3, <1>4, <1>6, <1>7, <1>8, <1>10 DEF IInv

LEMMA StutterStep ==
  ASSUME IInv, UNCHANGED vars
  PROVE  IInv'
<1>1. /\ nextSeqNum' = nextSeqNum /\ nextReliableIndex' = nextReliableIndex
      /\ nextOrderingIndex' = nextOrderingIndex /\ nextSplitId' = nextSplitId
      /\ sentPackets' = sentPackets /\ flushed' = flushed /\ wire' = wire /\ losses' = losses
      /\ seen' = seen /\ frames' = frames /\ delivered' = delivered
  BY DEF vars, sender, client
<1>2. Present' = Present
  BY <1>1 DEF Present
<1>3. QED
  BY <1>1, <1>2 DEF IInv, TypeOK, NumbersInv, FramesInv, DeliveredInv

LEMMA IInvStep == IInv /\ [Next]_vars => IInv'
<1> SUFFICES ASSUME IInv, [Next]_vars PROVE IInv'
  OBVIOUS
<1>1. CASE \E size \in Sizes : flushGamePackets(size)
  BY <1>1, FlushStep
<1>2. CASE sendConnectionRequestAccepted
  BY <1>2, AcceptedStep
<1>3. CASE sendConnectedPong
  BY <1>3, PongStep
<1>4. CASE \E seq \in seen : ReceiveAck(seq)
  BY <1>4, AckStep
<1>5. CASE \E seq \in MissingNow : ReceiveNack(seq)
  BY <1>5, NackStep
<1>6. CASE \E datagram \in wire : ClientReceive(datagram)
  BY <1>6, ReceiveStep
<1>7. CASE ClientDeliver
  BY <1>7, HandUpStep
<1>8. CASE UNCHANGED vars
  BY <1>8, StutterStep
<1>9. QED
  BY <1>1, <1>2, <1>3, <1>4, <1>5, <1>6, <1>7, <1>8 DEF Next, ServerStep, ClientStep

LEMMA SpecInv == Spec => []IInv
BY InitInv, IInvStep, PTL DEF Spec

\* The counters of the senders and what is kept in sentPackets keep their types.
THEOREM TypeCorrect == Spec => []TypeOK
<1>1. IInv => TypeOK
  BY DEF IInv
<1>2. QED
  BY <1>1, SpecInv, PTL

\* sentPackets has every datagram the client has not received, as it was sent:
\* the NACK handler of decodePacket() can answer any report.
THEOREM LossesRepairable == Spec => []LossRepairable
<1>1. IInv => LossRepairable
  BY DEF IInv, NumbersInv, LossRepairable
<1>2. QED
  BY <1>1, SpecInv, PTL

-----------------------------------------------------------------------------
(* The sender and its client are a reliable channel *)

LEMMA ChannelStep ==
  ASSUME IInv, [Next]_vars
  PROVE  [Channel!Next]_(Channel!vars)
<1> USE DEF Channel!vars
<1>1. flushed \in Seq(Batch) /\ Len(flushed) \in Nat
  BY DEF IInv, TypeOK
<1>2. CASE \E size \in Sizes : flushGamePackets(size)
  <2>1. PICK size \in Sizes : flushGamePackets(size)
    BY <1>2
  <2>2. /\ [number |-> Len(flushed) + 1, size |-> size] \in Batch
        /\ flushed' = Append(flushed, [number |-> Len(flushed) + 1, size |-> size])
        /\ delivered' = delivered
    BY <1>1, <2>1, BoundAssumption DEF flushGamePackets, client, Batch
  <2>3. QED
    BY <2>2 DEF Channel!Next, Channel!Send
<1>3. CASE ClientDeliver
  <2>1. /\ flushed' = flushed
        /\ Len(delivered) + 1 \in 1..Len(flushed)
        /\ delivered' = Append(delivered, flushed[Len(delivered) + 1])
    BY <1>3, HandUpStep
  <2>2. /\ delivered \in Seq(Batch) /\ Len(delivered) \in Nat
        /\ \A i \in 1..Len(delivered) : delivered[i] = flushed[i]
    BY DEF IInv, DeliveredInv
  <2>3. Append(delivered, flushed[Len(delivered) + 1]) = SubSeq(flushed, 1, Len(delivered) + 1)
    <3> DEFINE k == Len(delivered) + 1
               longer == Append(delivered, flushed[k])
               part == SubSeq(flushed, 1, k)
    <3>1. flushed[k] \in Batch
      BY <1>1, <2>1
    <3>2. /\ longer \in Seq(Batch) /\ Len(longer) = k
          /\ \A i \in 1..k : longer[i] = flushed[i]
      BY <2>2, <3>1
    <3>3. /\ part \in Seq(Batch) /\ Len(part) = k
          /\ \A i \in 1..k : part[i] = flushed[i]
      BY <1>1, <2>1, <2>2
    <3> HIDE DEF longer, part, k
    <3>4. longer = part
      BY <3>2, <3>3, SeqEqual
    <3>5. QED
      BY <3>4 DEF longer, part, k
  <2>4. 1 \in 1..Len(flushed) /\ Len(delivered) + 1 <= Len(flushed)
    BY <1>1, <2>1, <2>2
  <2>5. Channel!Deliver(1)
    BY <2>1, <2>3, <2>4 DEF Channel!Deliver
  <2>6. QED
    BY <2>4, <2>5 DEF Channel!Next
<1>4. CASE \/ sendConnectionRequestAccepted
           \/ sendConnectedPong
           \/ \E seq \in seen : ReceiveAck(seq)
           \/ \E seq \in MissingNow : ReceiveNack(seq)
           \/ \E datagram \in wire : ClientReceive(datagram)
           \/ UNCHANGED vars
  <2>1. flushed' = flushed /\ delivered' = delivered
    BY <1>4 DEF sendConnectionRequestAccepted, sendConnectedPong, ReceiveAck, ReceiveNack,
                ClientReceive, vars, client
  <2>2. QED
    BY <2>1
<1>5. QED
  BY <1>2, <1>3, <1>4 DEF Next, ServerStep, ClientStep

\* Whatever is lost, repeated and reordered, the client hands up the batches of
\* flushGamePackets() whole, once each and in order.
THEOREM SendImplementsChannel == Spec => ImplementsChannel
<1>1. Init => Channel!Init
  BY DEF Init, Channel!Init
<1>2. IInv /\ [Next]_vars => [Channel!Next]_(Channel!vars)
  BY ChannelStep
<1>3. QED
  BY <1>1, <1>2, InitInv, IInvStep, PTL DEF Spec, ImplementsChannel, Channel!Spec
=============================================================================
