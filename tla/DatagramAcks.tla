---------------------------- MODULE DatagramAcks ----------------------------
(***************************************************************************)
(* Acknowledging one session's incoming datagrams: sendACKPacket() and     *)
(* checkAndSendNACK() of LBNet/Packets/AcknowledgePacket.cpp, which        *)
(* decodePacket() calls in that order for every FrameSet.                  *)
(*                                                                         *)
(* The peer (external) numbers its datagrams 0, 1, 2, ...; what is on the  *)
(* wire is the number modulo SeqSpace.  A datagram may be lost, received   *)
(* again, or received after later ones, by less than Lag numbers.          *)
(***************************************************************************)
EXTENDS Integers, FiniteSets

CONSTANTS SeqSpace,      \* MAX_SEQ + 1, 2^24
          Kept,          \* how many numbers ackedSeqs holds at most, 1000
          NackLimit,     \* a gap of this many numbers is not reported, 1000
          Lag,           \* how late a datagram may still come in
          Ahead,         \* how far the peer runs ahead of what came in
          MaxSent        \* bound: how many datagrams the peer sends

ASSUME WindowAssumption == /\ SeqSpace \in Nat \ {0} /\ MaxSent \in Nat
                           /\ Kept \in Nat \ {0} /\ NackLimit \in Nat
                           /\ Lag \in Nat \ {0} /\ Ahead \in Nat \ {0}

Sequence == 0..(SeqSpace - 1)

VARIABLES sentCount,     \* peer: datagrams 0..sentCount-1 have been sent
          expectedSeq, hasReceivedAny, ackedSeqs,  \* the fields of ClientState
          received,      \* history: datagrams that came in
          first,         \* history: the one that came in first, or 0
          highest,       \* history: the latest one that came in, or -1
          nacked,        \* history: datagrams ever reported missing
          lastNacks      \* history: datagrams the last FrameSet reported missing

vars == <<sentCount, expectedSeq, hasReceivedAny, ackedSeqs,
          received, first, highest, nacked, lastNacks>>

TypeOK ==
  /\ sentCount \in 0..MaxSent
  /\ expectedSeq \in Sequence
  /\ hasReceivedAny \in BOOLEAN
  /\ ackedSeqs \in SUBSET Sequence /\ IsFiniteSet(ackedSeqs)
  /\ received \in SUBSET (0..(MaxSent - 1))
  /\ first \in Nat
  /\ highest \in -1..(MaxSent - 1)
  /\ nacked \in SUBSET (0..(MaxSent - 1))
  /\ lastNacks \in SUBSET (0..(MaxSent - 1))

Init ==
  /\ sentCount = 0
  /\ expectedSeq = 0
  /\ hasReceivedAny = FALSE
  /\ ackedSeqs = {}
  /\ received = {}
  /\ first = 0
  /\ highest = -1
  /\ nacked = {}
  /\ lastNacks = {}

-----------------------------------------------------------------------------
(* Arithmetic on the wire: `& MAX_SEQ`.                                     *)

Wire(n)    == n % SeqSpace
Plus(s, i) == IF s + i >= SeqSpace THEN s + i - SeqSpace ELSE s + i
Minus(s, t) == IF s >= t THEN s - t ELSE s - t + SeqSpace

-----------------------------------------------------------------------------
(* The peer. *)

SendDatagram ==
  /\ sentCount < MaxSent
  /\ sentCount <= highest + Ahead
  /\ sentCount' = sentCount + 1
  /\ UNCHANGED <<expectedSeq, hasReceivedAny, ackedSeqs,
                 received, first, highest, nacked, lastNacks>>

-----------------------------------------------------------------------------
(* One FrameSet. *)

\* Mutant: the set is cut down from the wrong end.
AckDropsNewest(seq) ==
  LET all == ackedSeqs \cup {seq}
  IN  \/ Cardinality(all) <= Kept /\ ackedSeqs' = all
      \/ /\ Cardinality(all) > Kept
         /\ \E high \in all : (\A s \in all : high >= s) /\ ackedSeqs' = all \ {high}

\* The number is remembered, and the smallest one makes room for it.
sendACKPacket(seq) ==
  LET all == ackedSeqs \cup {seq}
  IN  \/ Cardinality(all) <= Kept /\ ackedSeqs' = all
      \/ /\ Cardinality(all) > Kept
         /\ \E low \in all : (\A s \in all : low <= s) /\ ackedSeqs' = all \ {low}

\* Mutant: numbers already acknowledged are reported too.
MissingUnchecked(n, acked) ==
  LET gap == Minus(Wire(n), expectedSeq)
  IN  IF hasReceivedAny /\ gap < NackLimit
      THEN {n - gap + i : i \in 0..(gap - 1)}
      ELSE {}

\* Mutant: only the gap's first number is reported.
MissingFirstOnly(n, acked) ==
  LET gap == Minus(Wire(n), expectedSeq)
  IN  IF hasReceivedAny /\ gap > 0 /\ gap < NackLimit /\ expectedSeq \notin acked
      THEN {n - gap}
      ELSE {}

\* Mutant: a gap of any size is reported.
MissingUnlimited(n, acked) ==
  LET gap == Minus(Wire(n), expectedSeq)
  IN  IF hasReceivedAny
      THEN {n - gap + i : i \in {j \in 0..(gap - 1) : Plus(expectedSeq, j) \notin acked}}
      ELSE {}

\* checkAndSendNACK(): the gap between the expected number and this one, less
\* what has been acknowledged.  The i-th number of the gap is that of datagram
\* n - gap + i, unless the expected number is a whole turn behind.
Missing(n, acked) ==
  LET gap == Minus(Wire(n), expectedSeq)
  IN  IF hasReceivedAny /\ gap < NackLimit
      THEN {n - gap + i : i \in {j \in 0..(gap - 1) : Plus(expectedSeq, j) \notin acked}}
      ELSE {}

\* decodePacket() of datagram n: acknowledge it, then look for a gap.
ReceiveDatagram(n) ==
  /\ n < sentCount
  /\ n > highest - Lag
  /\ sendACKPacket(Wire(n))
  /\ lastNacks' = Missing(n, ackedSeqs')
  /\ expectedSeq' = Plus(Wire(n), 1)
  /\ hasReceivedAny' = TRUE
  /\ received' = received \cup {n}
  /\ first' = IF hasReceivedAny THEN first ELSE n
  /\ highest' = IF n > highest THEN n ELSE highest
  /\ nacked' = nacked \cup lastNacks'
  /\ UNCHANGED sentCount

Next == SendDatagram \/ \E n \in 0..(MaxSent - 1) : ReceiveDatagram(n)

Spec == Init /\ [][Next]_vars

-----------------------------------------------------------------------------
(* Properties *)

\* A datagram reported missing has not come in: "sends a NACK for every
\* sequence number in between that we haven't already seen acked"
\* (AcknowledgePacket.h:18-20).  The set that tells is cut down to Kept
\* numbers, so this needs every late datagram to be later by less than that.
NacksOnlyMissing == lastNacks \cap received = {}

\* Nothing between the first datagram and the latest is overlooked: each has
\* come in or has been reported missing, also when late datagrams moved the
\* expected number back in between.
GapsReported == \A n \in first..highest : n \in received \cup nacked

\* What ackedSeqs has forgotten is older than everything the peer may still
\* deliver late: memory stays bounded without forgetting too early.
ForgetsOnlyTheOld ==
  /\ Cardinality(ackedSeqs) <= Kept
  /\ \A n \in received : Wire(n) \notin ackedSeqs => n + Kept <= highest
=============================================================================
