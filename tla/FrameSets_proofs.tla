-------------------------- MODULE FrameSets_proofs --------------------------
(***************************************************************************)
(* Proofs about FrameSets: for all kinds of messages and any number of     *)
(* datagrams, the frame loop hands deliverOrdered() the peer's messages,   *)
(* and from there the game layer gets them whole, once each and in order.  *)
(* What OrderedDelivery_proofs shows of deliverOrdered() is used under     *)
(* FrameSets' substitution, with no assumption but its own.                *)
(***************************************************************************)
EXTENDS FrameSets, FiniteSetTheorems, SequenceTheorems, TLAPS

\* The proofs about deliverOrdered(), for the peer and the network it has here.
OP == INSTANCE OrderedDelivery_proofs WITH
  Ordinary   <- Ordered("ordinary"),
  Malformed  <- Ordered("malformed"),
  Closing    <- Ordered("closing"),
  IndexSpace <- MaxMessages + 1,
  Window     <- MaxMessages + 1,
  MaxSent    <- MaxMessages,
  sent       <- OrderedSent,
  network    <- {[orderingIndex |-> OrderingIndex(n), payload |-> messages[n]] :
                   n \in OrderedNumbers},
  acked      <- offered

\* OrderedDelivery's assumptions hold of what is put in their place.
LEMMA OrderingAssumptions == OP!PayloadAssumption /\ OP!BoundAssumption
<1>1. OP!PayloadAssumption
  BY DEF Ordered, OP!PayloadAssumption
<1>2. OP!BoundAssumption
  BY BoundsAssumption DEF OP!BoundAssumption
<1>3. QED
  BY <1>1, <1>2

-----------------------------------------------------------------------------
(* Counting: ordering indices and split ids number the peer's messages of a *)
(* kind one after another.                                                  *)

\* How many members of S are below n.
Count(S, n) == Cardinality(S \cap (1..(n - 1)))

LEMMA CountBounds ==
  ASSUME NEW S, NEW n \in Nat \ {0}
  PROVE  /\ IsFiniteSet(S \cap (1..(n - 1)))
         /\ Count(S, n) \in Nat
         /\ Count(S, n) < n
<1>1. IsFiniteSet(1..(n - 1)) /\ Cardinality(1..(n - 1)) = n - 1
  BY FS_Interval
<1>2. S \cap (1..(n - 1)) \in SUBSET (1..(n - 1))
  OBVIOUS
<1> DEFINE T == S \cap (1..(n - 1))
           I == 1..(n - 1)
<1> HIDE DEF T, I
<1>3. IsFiniteSet(T) /\ Cardinality(T) <= Cardinality(I)
  BY <1>1, <1>2, FS_Subset DEF T, I
<1>4. Cardinality(T) \in Nat
  BY <1>3, FS_CardinalityType
<1>5. QED
  BY <1>1, <1>3, <1>4 DEF Count, T, I

LEMMA CountStrict ==
  ASSUME NEW S, NEW m \in Nat \ {0}, NEW n \in Nat \ {0}, m \in S, m < n
  PROVE  Count(S, m) < Count(S, n)
<1> DEFINE T == S \cap (1..(m - 1))
           U == S \cap (1..(n - 1))
<1>1. T \cup {m} \in SUBSET U /\ m \notin T
  OBVIOUS
<1>2. IsFiniteSet(T) /\ IsFiniteSet(U) /\ Cardinality(T) \in Nat /\ Cardinality(U) \in Nat
  BY CountBounds DEF Count
<1> HIDE DEF T, U
<1>3. Cardinality(T \cup {m}) = Cardinality(T) + 1
  BY <1>1, <1>2, FS_AddElement
<1>4. Cardinality(T \cup {m}) <= Cardinality(U)
  BY <1>1, <1>2, FS_Subset
<1>5. QED
  BY <1>2, <1>3, <1>4 DEF Count, T, U

-----------------------------------------------------------------------------
(* The peer's log of messages.  The operators of FrameSets that number them *)
(* read the variable; these take the log, so that a lemma about them speaks *)
(* of the log before a step and after it.                                   *)

KindIn(log, n)  == log[n][1].kind
OrderedIn(log)  == {n \in DOMAIN log : KindIn(log, n).ordered}
SplitIn(log)    == {n \in DOMAIN log : KindIn(log, n).parts > 1}
IndexIn(log, n) == Cardinality({m \in 1..(n - 1) : KindIn(log, m).ordered})
SplitIdIn(log, n) == Cardinality({m \in 1..(n - 1) : KindIn(log, m).parts > 1}) % SplitIds
SentIn(log) ==
  [i \in 1..Cardinality(OrderedIn(log)) |->
     log[CHOOSE n \in OrderedIn(log) : IndexIn(log, n) = i - 1]]

\* Message n of a log is number n, and the log is within its bound.
NumberedLog(log) ==
  /\ log \in Seq(Messages)
  /\ Len(log) <= MaxMessages
  /\ \A n \in DOMAIN log : \E kind \in Kinds : log[n] = Whole(n, kind)

\* No ordering index below the number of ordered messages is left out.
IndexedLog(log) ==
  \A i \in 1..Cardinality(OrderedIn(log)) : \E n \in OrderedIn(log) : IndexIn(log, n) = i - 1

LEMMA WholeFacts ==
  ASSUME NEW n, NEW kind \in Kinds
  PROVE  /\ kind.parts \in Nat \ {0} /\ kind.ordered \in BOOLEAN
         /\ kind.content \in {"ordinary", "malformed", "closing"}
         /\ DOMAIN Whole(n, kind) = 1..kind.parts
         /\ \A i \in 1..kind.parts : Whole(n, kind)[i] = [message |-> n, part |-> i, kind |-> kind]
         /\ 1 \in 1..kind.parts
         /\ Whole(n, kind)[1].kind = kind
BY KindsAssumption DEF Whole

LEMMA LogFacts ==
  ASSUME NEW log, NumberedLog(log), NEW n \in DOMAIN log
  PROVE  /\ n \in Nat \ {0} /\ n <= Len(log)
         /\ KindIn(log, n) \in Kinds
         /\ log[n] = Whole(n, KindIn(log, n))
         /\ log[n] \in Messages
<1>1. PICK kind \in Kinds : log[n] = Whole(n, kind)
  BY DEF NumberedLog
<1>2. KindIn(log, n) = kind
  BY <1>1, WholeFacts DEF KindIn
<1>3. n \in Nat \ {0} /\ n <= Len(log) /\ log[n] \in Messages
  BY DEF NumberedLog
<1>4. QED
  BY <1>1, <1>2, <1>3

\* The sets behind an ordering index and a split id are initial parts of the
\* set of all ordered messages and of all split ones.
LEMMA NumbersAreCounts ==
  ASSUME NEW log, NumberedLog(log), NEW n \in 1..(Len(log) + 1)
  PROVE  /\ IndexIn(log, n) = Count(OrderedIn(log), n)
         /\ SplitIdIn(log, n) = Count(SplitIn(log), n) % SplitIds
<1>1. DOMAIN log = 1..Len(log) /\ Len(log) \in Nat
  BY DEF NumberedLog
<1>2. {m \in 1..(n - 1) : KindIn(log, m).ordered} = OrderedIn(log) \cap (1..(n - 1))
  BY <1>1 DEF OrderedIn
<1>3. {m \in 1..(n - 1) : KindIn(log, m).parts > 1} = SplitIn(log) \cap (1..(n - 1))
  BY <1>1 DEF SplitIn
<1>4. QED
  BY <1>2, <1>3 DEF IndexIn, SplitIdIn, Count

LEMMA CountsOfAll ==
  ASSUME NEW log, NumberedLog(log)
  PROVE  /\ Count(OrderedIn(log), Len(log) + 1) = Cardinality(OrderedIn(log))
         /\ Cardinality(OrderedIn(log)) \in Nat
         /\ Cardinality(OrderedIn(log)) <= Len(log)
<1>1. DOMAIN log = 1..Len(log) /\ Len(log) \in Nat
  BY DEF NumberedLog
<1>2. OrderedIn(log) \cap (1..((Len(log) + 1) - 1)) = OrderedIn(log)
  BY <1>1 DEF OrderedIn
<1>3. Len(log) + 1 \in Nat \ {0}
  BY <1>1
<1> DEFINE k == Len(log) + 1
<1> HIDE DEF k
<1>4. Count(OrderedIn(log), k) \in Nat /\ Count(OrderedIn(log), k) < k
  BY <1>3, CountBounds DEF k
<1>5. Count(OrderedIn(log), k) = Cardinality(OrderedIn(log))
  BY <1>2 DEF k, Count
<1>6. QED
  BY <1>1, <1>4, <1>5 DEF k

\* A message's ordering index is its place among the ordered ones.
LEMMA IndexFacts ==
  ASSUME NEW log, NumberedLog(log), NEW n \in OrderedIn(log)
  PROVE  /\ IndexIn(log, n) \in Nat
         /\ IndexIn(log, n) < n
         /\ IndexIn(log, n) < Cardinality(OrderedIn(log))
         /\ IndexIn(log, n) <= MaxMessages
         /\ \A m \in OrderedIn(log) : IndexIn(log, m) = IndexIn(log, n) => m = n
<1>1. /\ DOMAIN log = 1..Len(log) /\ Len(log) \in Nat
      /\ \A m \in OrderedIn(log) : /\ m \in Nat \ {0} /\ m <= Len(log) /\ m \in 1..(Len(log) + 1)
                                   /\ m < Len(log) + 1
      /\ Len(log) + 1 \in Nat \ {0}
  BY DEF NumberedLog, OrderedIn
<1>2. \A m \in OrderedIn(log) : IndexIn(log, m) = Count(OrderedIn(log), m)
  BY <1>1, NumbersAreCounts
<1>3. /\ IndexIn(log, n) \in Nat /\ IndexIn(log, n) < n
  BY <1>1, <1>2, CountBounds
<1>4. IndexIn(log, n) < Cardinality(OrderedIn(log))
  <2>1. Count(OrderedIn(log), n) < Count(OrderedIn(log), Len(log) + 1)
    BY <1>1, CountStrict
  <2>2. QED
    BY <1>2, <2>1, CountsOfAll
<1>5. ASSUME NEW m \in OrderedIn(log), IndexIn(log, m) = IndexIn(log, n)
      PROVE  m = n
  <2>1. Count(OrderedIn(log), m) \in Nat /\ Count(OrderedIn(log), n) \in Nat
    BY <1>1, CountBounds
  <2>2. m < n => Count(OrderedIn(log), m) < Count(OrderedIn(log), n)
    BY <1>1, CountStrict
  <2>3. n < m => Count(OrderedIn(log), n) < Count(OrderedIn(log), m)
    BY <1>1, CountStrict
  <2>4. QED
    BY <1>1, <1>2, <1>5, <2>1, <2>2, <2>3
<1>6. IndexIn(log, n) <= MaxMessages
  <2>1. Len(log) <= MaxMessages /\ MaxMessages \in Nat
    BY BoundsAssumption DEF NumberedLog
  <2>2. n <= Len(log) /\ n \in Nat
    BY <1>1
  <2>3. QED
    BY <1>1, <1>3, <2>1, <2>2
<1>7. QED
  BY <1>3, <1>4, <1>5, <1>6

\* As long as split ids do not wrap, a split id names one split message.
LEMMA SplitIdFacts ==
  ASSUME MaxMessages <= SplitIds, NEW log, NumberedLog(log), NEW n \in SplitIn(log)
  PROVE  /\ SplitIdIn(log, n) \in 0..(SplitIds - 1)
         /\ \A m \in SplitIn(log) : SplitIdIn(log, m) = SplitIdIn(log, n) => m = n
<1>1. /\ DOMAIN log = 1..Len(log) /\ Len(log) \in Nat /\ Len(log) <= MaxMessages
      /\ \A m \in SplitIn(log) : /\ m \in Nat \ {0} /\ m <= Len(log) /\ m \in 1..(Len(log) + 1)
      /\ SplitIds \in Nat \ {0} /\ MaxMessages \in Nat
  BY BoundsAssumption DEF NumberedLog, SplitIn
<1>2. ASSUME NEW m \in SplitIn(log)
      PROVE  /\ Count(SplitIn(log), m) \in Nat /\ Count(SplitIn(log), m) < SplitIds
             /\ SplitIdIn(log, m) = Count(SplitIn(log), m)
  <2>0. m \in Nat \ {0} /\ m <= SplitIds
    BY <1>1
  <2>1. Count(SplitIn(log), m) \in Nat /\ Count(SplitIn(log), m) < m
    BY <2>0, CountBounds
  <2>2. Count(SplitIn(log), m) < SplitIds
    BY <1>1, <2>0, <2>1
  <2>3. SplitIdIn(log, m) = Count(SplitIn(log), m) % SplitIds
    BY <1>1, NumbersAreCounts
  <2>4. Count(SplitIn(log), m) % SplitIds = Count(SplitIn(log), m)
    BY <1>1, <2>1, <2>2, OP!SmallModulus
  <2>5. QED
    BY <2>1, <2>2, <2>3, <2>4
<1>3. ASSUME NEW m \in SplitIn(log), SplitIdIn(log, m) = SplitIdIn(log, n)
      PROVE  m = n
  <2>1. m < n => Count(SplitIn(log), m) < Count(SplitIn(log), n)
    BY <1>1, CountStrict
  <2>2. n < m => Count(SplitIn(log), n) < Count(SplitIn(log), m)
    BY <1>1, CountStrict
  <2>3. /\ Count(SplitIn(log), m) \in Nat /\ Count(SplitIn(log), n) \in Nat
        /\ Count(SplitIn(log), m) = Count(SplitIn(log), n)
    BY <1>2, <1>3
  <2>4. QED
    BY <1>1, <2>1, <2>2, <2>3
<1>4. SplitIdIn(log, n) \in 0..(SplitIds - 1)
  BY <1>1, <1>2
<1>5. QED
  BY <1>3, <1>4

\* What the peer has sent on the ordering channel has each ordered message at
\* its index.
LEMMA SentAt ==
  ASSUME NEW log, NumberedLog(log), NEW n \in OrderedIn(log)
  PROVE  /\ IndexIn(log, n) + 1 \in 1..Cardinality(OrderedIn(log))
         /\ SentIn(log)[IndexIn(log, n) + 1] = log[n]
<1> DEFINE i == IndexIn(log, n) + 1
<1>1. i \in 1..Cardinality(OrderedIn(log)) /\ i - 1 = IndexIn(log, n)
  BY IndexFacts, CountsOfAll
<1> HIDE DEF i
<1>2. (CHOOSE m \in OrderedIn(log) : IndexIn(log, m) = i - 1) = n
  <2>1. \A m \in OrderedIn(log) : IndexIn(log, m) = i - 1 => m = n
    BY <1>1, IndexFacts
  <2>2. \E m \in OrderedIn(log) : IndexIn(log, m) = i - 1
    BY <1>1
  <2>3. QED
    BY <2>1, <2>2
<1>3. SentIn(log)[i] = log[n]
  BY <1>1, <1>2 DEF SentIn
<1>4. QED
  BY <1>1, <1>3 DEF i

LEMMA SentFacts ==
  ASSUME NEW log, NumberedLog(log), IndexedLog(log)
  PROVE  /\ SentIn(log) \in Seq(Messages)
         /\ Len(SentIn(log)) = Cardinality(OrderedIn(log))
         /\ \A i \in DOMAIN SentIn(log) :
              \E n \in OrderedIn(log) : IndexIn(log, n) = i - 1 /\ SentIn(log)[i] = log[n]
<1>1. Cardinality(OrderedIn(log)) \in Nat
  BY CountsOfAll
<1>2. DOMAIN SentIn(log) = 1..Cardinality(OrderedIn(log))
  BY DEF SentIn
<1>3. ASSUME NEW i \in 1..Cardinality(OrderedIn(log))
      PROVE  \E n \in OrderedIn(log) : IndexIn(log, n) = i - 1 /\ SentIn(log)[i] = log[n]
  <2>1. PICK n \in OrderedIn(log) : IndexIn(log, n) = i - 1
    BY DEF IndexedLog
  <2>2. IndexIn(log, n) + 1 = i
    BY <2>1, IndexFacts, <1>1
  <2>3. SentIn(log)[i] = log[n]
    BY <2>2, SentAt
  <2>4. QED
    BY <2>1, <2>3
<1>4. \A i \in 1..Cardinality(OrderedIn(log)) : SentIn(log)[i] \in Messages
  BY <1>3, LogFacts DEF OrderedIn
<1>5. SentIn(log) \in [1..Cardinality(OrderedIn(log)) -> Messages]
  BY <1>4 DEF SentIn
<1>6. QED
  BY <1>1, <1>2, <1>3, <1>5

-----------------------------------------------------------------------------
(* One more message. *)

NetworkIn(log) ==
  {[orderingIndex |-> IndexIn(log, n), payload |-> log[n]] : n \in OrderedIn(log)}

\* The log one message longer: what it has, and that nothing else moves.
Extended(log, kind, next) ==
  /\ DOMAIN log = 1..Len(log) /\ Len(log) \in Nat
  /\ NumberedLog(next)
  /\ Len(next) = Len(log) + 1 /\ DOMAIN next = DOMAIN log \cup {Len(log) + 1}
  /\ \A n \in DOMAIN log : next[n] = log[n] /\ KindIn(next, n) = KindIn(log, n)
  /\ next[Len(log) + 1] = Whole(Len(log) + 1, kind)
  /\ KindIn(next, Len(log) + 1) = kind
  /\ \A n \in 1..(Len(log) + 1) :
       IndexIn(next, n) = IndexIn(log, n) /\ SplitIdIn(next, n) = SplitIdIn(log, n)

LEMMA AppendExtends ==
  ASSUME NEW log, NumberedLog(log), Len(log) < MaxMessages, NEW kind \in Kinds
  PROVE  Extended(log, kind, Append(log, Whole(Len(log) + 1, kind)))
<1> DEFINE new == Len(log) + 1
           next == Append(log, Whole(new, kind))
<1>1. /\ log \in Seq(Messages) /\ Len(log) \in Nat /\ DOMAIN log = 1..Len(log)
      /\ new \in 1..MaxMessages /\ MaxMessages \in Nat
  BY BoundsAssumption DEF NumberedLog
<1>2. Whole(new, kind) \in Messages
  BY <1>1 DEF Messages
<1>3. /\ next \in Seq(Messages) /\ Len(next) = new /\ DOMAIN next = 1..new
      /\ \A n \in 1..Len(log) : next[n] = log[n]
      /\ next[new] = Whole(new, kind)
  BY <1>1, <1>2, AppendProperties
<1> HIDE DEF next
<1>4. \A n \in DOMAIN log : next[n] = log[n] /\ KindIn(next, n) = KindIn(log, n)
  BY <1>1, <1>3 DEF KindIn
<1>5. KindIn(next, new) = kind
  BY <1>3, WholeFacts DEF KindIn
<1>6. DOMAIN next = DOMAIN log \cup {new}
  BY <1>1, <1>3
<1>7. NumberedLog(next)
  <2>1. \A n \in DOMAIN next : \E k \in Kinds : next[n] = Whole(n, k)
    BY <1>3, <1>4, <1>6 DEF NumberedLog
  <2>2. QED
    BY <1>1, <1>3, <2>1 DEF NumberedLog
<1>8. ASSUME NEW n \in 1..new
      PROVE  IndexIn(next, n) = IndexIn(log, n) /\ SplitIdIn(next, n) = SplitIdIn(log, n)
  <2>1. \A m \in 1..(n - 1) : KindIn(next, m) = KindIn(log, m)
    BY <1>1, <1>4
  <2>2. /\ {m \in 1..(n - 1) : KindIn(next, m).ordered} = {m \in 1..(n - 1) : KindIn(log, m).ordered}
        /\ {m \in 1..(n - 1) : KindIn(next, m).parts > 1} = {m \in 1..(n - 1) : KindIn(log, m).parts > 1}
    BY <2>1
  <2>3. QED
    BY <2>2 DEF IndexIn, SplitIdIn
<1>9. QED
  BY <1>1, <1>3, <1>4, <1>5, <1>6, <1>7, <1>8 DEF Extended, next

\* What was sent on the ordering channel stays where it is.
LEMMA SentExtends ==
  ASSUME NEW log, NumberedLog(log), IndexedLog(log), NEW next, NumberedLog(next),
         \A n \in OrderedIn(log) :
           n \in OrderedIn(next) /\ next[n] = log[n] /\ IndexIn(next, n) = IndexIn(log, n)
  PROVE  \A i \in 1..Cardinality(OrderedIn(log)) : SentIn(next)[i] = SentIn(log)[i]
<1> SUFFICES ASSUME NEW i \in 1..Cardinality(OrderedIn(log))
             PROVE  SentIn(next)[i] = SentIn(log)[i]
  OBVIOUS
<1>1. PICK n \in OrderedIn(log) : IndexIn(log, n) = i - 1
  BY DEF IndexedLog
<1>2. IndexIn(log, n) + 1 = i
  BY <1>1, CountsOfAll
<1>3. SentIn(log)[i] = log[n]
  BY <1>2, SentAt
<1>4. n \in OrderedIn(next) /\ next[n] = log[n] /\ IndexIn(next, n) + 1 = i
  BY <1>2
<1>5. SentIn(next)[i] = next[n]
  BY <1>4, SentAt
<1>6. QED
  BY <1>3, <1>4, <1>5

\* A message outside the ordering channel changes nothing on it.
LEMMA AppendPlain ==
  ASSUME NEW log, NumberedLog(log), IndexedLog(log), Len(log) < MaxMessages,
         NEW kind \in Kinds, ~kind.ordered,
         NEW next, next = Append(log, Whole(Len(log) + 1, kind))
  PROVE  IndexedLog(next) /\ SentIn(next) = SentIn(log) /\ NetworkIn(next) = NetworkIn(log)
<1>1. /\ DOMAIN log = 1..Len(log) /\ Len(log) \in Nat
      /\ DOMAIN next = DOMAIN log \cup {Len(log) + 1}
      /\ \A n \in DOMAIN log : next[n] = log[n] /\ KindIn(next, n) = KindIn(log, n)
      /\ KindIn(next, Len(log) + 1) = kind
      /\ \A n \in 1..(Len(log) + 1) : IndexIn(next, n) = IndexIn(log, n)
      /\ NumberedLog(next)
  <2>1. Extended(log, kind, next)
    BY AppendExtends
  <2>2. QED
    BY <2>1 DEF Extended
<1>2. OrderedIn(next) = OrderedIn(log)
  BY <1>1 DEF OrderedIn
<1>3. \A n \in OrderedIn(log) :
        /\ n \in DOMAIN log /\ n \in OrderedIn(next)
        /\ next[n] = log[n] /\ IndexIn(next, n) = IndexIn(log, n)
  BY <1>1, <1>2 DEF OrderedIn
<1>4. IndexedLog(next)
  BY <1>2, <1>3 DEF IndexedLog
<1>5. SentIn(next) = SentIn(log)
  <2>1. \A i \in 1..Cardinality(OrderedIn(log)) : SentIn(next)[i] = SentIn(log)[i]
    BY <1>1, <1>3, SentExtends
  <2>2. /\ SentIn(next) \in Seq(Messages) /\ SentIn(log) \in Seq(Messages)
        /\ Len(SentIn(next)) = Cardinality(OrderedIn(log))
        /\ Len(SentIn(log)) = Cardinality(OrderedIn(log))
    BY <1>1, <1>2, <1>4, SentFacts
  <2>3. QED
    BY <2>1, <2>2, SeqEqual
<1>6. NetworkIn(next) = NetworkIn(log)
  BY <1>2, <1>3 DEF NetworkIn
<1>7. QED
  BY <1>4, <1>5, <1>6

\* An ordered message goes behind what was sent, under the next index.
LEMMA AppendOrdered ==
  ASSUME NEW log, NumberedLog(log), IndexedLog(log), Len(log) < MaxMessages,
         NEW kind \in Kinds, kind.ordered,
         NEW next, next = Append(log, Whole(Len(log) + 1, kind))
  PROVE  /\ IndexedLog(next)
         /\ SentIn(next) = Append(SentIn(log), Whole(Len(log) + 1, kind))
         /\ NetworkIn(next) = NetworkIn(log) \cup
              {[orderingIndex |-> Len(SentIn(log)), payload |-> Whole(Len(log) + 1, kind)]}
<1> DEFINE new == Len(log) + 1
           count == Cardinality(OrderedIn(log))
<1>1. /\ DOMAIN log = 1..Len(log) /\ Len(log) \in Nat
      /\ DOMAIN next = DOMAIN log \cup {new}
      /\ \A n \in DOMAIN log : next[n] = log[n] /\ KindIn(next, n) = KindIn(log, n)
      /\ KindIn(next, new) = kind /\ next[new] = Whole(new, kind)
      /\ \A n \in 1..new : IndexIn(next, n) = IndexIn(log, n)
      /\ NumberedLog(next)
  <2>1. Extended(log, kind, next)
    BY AppendExtends
  <2>2. QED
    BY <2>1 DEF Extended
<1>2. OrderedIn(next) = OrderedIn(log) \cup {new} /\ new \notin OrderedIn(log)
  BY <1>1 DEF OrderedIn
<1>3. \A n \in OrderedIn(log) :
        /\ n \in DOMAIN log /\ n \in OrderedIn(next)
        /\ next[n] = log[n] /\ IndexIn(next, n) = IndexIn(log, n)
  BY <1>1, <1>2 DEF OrderedIn
<1>4. IndexIn(next, new) = count
  <2>1. new \in 1..new
    BY <1>1
  <2>2. IndexIn(next, new) = IndexIn(log, new)
    BY <1>1, <2>1
  <2>3. IndexIn(log, new) = Count(OrderedIn(log), new)
    BY <2>1, NumbersAreCounts
  <2>4. QED
    BY <2>2, <2>3, CountsOfAll
<1>5. count \in Nat /\ Cardinality(OrderedIn(next)) = count + 1
  <2>1. IsFiniteSet(1..Len(log)) /\ OrderedIn(log) \in SUBSET (1..Len(log))
    BY <1>1, FS_Interval DEF OrderedIn
  <2>2. IsFiniteSet(OrderedIn(log))
    BY <2>1, FS_Subset
  <2>3. QED
    BY <1>2, <2>2, FS_AddElement, CountsOfAll
<1>6. IndexedLog(next)
  <2> SUFFICES ASSUME NEW i \in 1..(count + 1)
               PROVE  \E n \in OrderedIn(next) : IndexIn(next, n) = i - 1
    BY <1>5 DEF IndexedLog
  <2>1. CASE i \in 1..count
    <3>1. PICK n \in OrderedIn(log) : IndexIn(log, n) = i - 1
      BY <2>1 DEF IndexedLog
    <3>2. QED
      BY <1>3, <3>1
  <2>2. CASE i = count + 1
    BY <1>2, <1>4, <1>5, <2>2
  <2>3. QED
    BY <1>5, <2>1, <2>2
<1>7. /\ SentIn(log) \in Seq(Messages) /\ Len(SentIn(log)) = count
      /\ SentIn(next) \in Seq(Messages) /\ Len(SentIn(next)) = count + 1
  BY <1>1, <1>5, <1>6, SentFacts
<1>8. SentIn(next) = Append(SentIn(log), Whole(new, kind))
  <2> DEFINE longer == Append(SentIn(log), Whole(new, kind))
  <2>1. Whole(new, kind) \in Messages
    <3>1. new \in DOMAIN next /\ NumberedLog(next) /\ next[new] = Whole(new, kind)
      BY <1>1
    <3>2. QED
      BY <3>1, LogFacts
  <2>2. /\ longer \in Seq(Messages) /\ Len(longer) = count + 1
        /\ \A i \in 1..count : longer[i] = SentIn(log)[i]
        /\ longer[count + 1] = Whole(new, kind)
    <3>1. SentIn(log) \in Seq(Messages) /\ Len(SentIn(log)) = count
      BY <1>7
    <3> HIDE DEF count, new
    <3>2. QED
      BY <2>1, <3>1, AppendProperties
  <2>3. \A i \in 1..count : SentIn(next)[i] = SentIn(log)[i]
    BY <1>1, <1>3, SentExtends
  <2>4. SentIn(next)[count + 1] = Whole(new, kind)
    <3>1. new \in OrderedIn(next) /\ NumberedLog(next)
      BY <1>1, <1>2
    <3>2. SentIn(next)[IndexIn(next, new) + 1] = next[new]
      BY <3>1, SentAt
    <3>3. QED
      BY <1>1, <1>4, <3>2
  <2>5. \A i \in 1..(count + 1) : i \in 1..count \/ i = count + 1
    BY <1>5
  <2> HIDE DEF longer, count, new
  <2>6. \A i \in 1..(count + 1) : SentIn(next)[i] = longer[i]
    BY <2>2, <2>3, <2>4, <2>5
  <2>7. SentIn(next) = longer
    BY <1>7, <2>2, <2>6, SeqEqual
  <2>8. QED
    BY <2>7 DEF longer
<1>9. NetworkIn(next) = NetworkIn(log) \cup {[orderingIndex |-> count, payload |-> Whole(new, kind)]}
  BY <1>1, <1>2, <1>3, <1>4 DEF NetworkIn
<1>10. QED
  BY <1>6, <1>7, <1>8, <1>9

-----------------------------------------------------------------------------
(* The inductive invariant. *)

\* The frames of a log.
ExistingIn(log) == UNION {Range(log[n]) : n \in DOMAIN log}

\* The log is numbered, and no ordering index is left out.
PeerMatches == NumberedLog(messages) /\ IndexedLog(messages)

\* Whatever is on its way is cut from the peer's messages; frames are handled
\* only while there is a session.
FramesExist ==
  /\ \A d \in datagrams : d \in Seq(ExistingIn(messages))
  /\ IsFiniteSet(datagrams) /\ Cardinality(datagrams) <= MaxDatagrams
  /\ acked \subseteq datagrams
  /\ inbox \in Seq(ExistingIn(messages))
  /\ inbox # <<>> => session = "open"

\* A buffer with some fragments of message n, each at its place, but not all.
BufferOf(log, n, buffer) ==
  /\ buffer.splitCount = KindIn(log, n).parts
  /\ DOMAIN buffer.fragments \subseteq 1..KindIn(log, n).parts
  /\ \A i \in DOMAIN buffer.fragments : buffer.fragments[i] = log[n][i]
  /\ Cardinality(DOMAIN buffer.fragments) < KindIn(log, n).parts

\* Every split buffer belongs to the split message with its id.
BuffersMatch ==
  \A id \in DOMAIN splitBuffers :
    \E n \in SplitIn(messages) :
      SplitIdIn(messages, n) = id /\ BufferOf(messages, n, splitBuffers[id])

\* Where a frame is once its datagram is acknowledged, or that it comes next.
InBuffer(f) == \E id \in DOMAIN splitBuffers : f \in Range(splitBuffers[id].fragments)
Reached(p)  == p \in plain \/ OP!Held(p)
Kept(f)     == Reached(messages[f.message]) \/ InBuffer(f) \/ f \in Range(inbox)

\* AckedIsKept, also in the middle of a datagram.
AckedIsKeptOrNext ==
  session = "open" /\ ~AnyMalformed => \A d \in acked : \A f \in Range(d) : Kept(f)

IInv == /\ PeerMatches
        /\ FramesExist
        /\ BuffersMatch
        /\ plain \subseteq Range(messages)
        /\ OP!IInv
        /\ AckedIsKeptOrNext

LEMMA LogOperators ==
  /\ OrderedSent = SentIn(messages)
  /\ OrderedNumbers = OrderedIn(messages)
  /\ {[orderingIndex |-> OrderingIndex(n), payload |-> messages[n]] : n \in OrderedNumbers}
       = NetworkIn(messages)
  /\ Existing = ExistingIn(messages)
  /\ \A n : /\ OrderingIndex(n) = IndexIn(messages, n)
            /\ SplitId(n) = SplitIdIn(messages, n)
            /\ Kind(n) = KindIn(messages, n)
BY DEF OrderedSent, SentIn, OrderedNumbers, OrderedIn, OrderingIndex, IndexIn, NetworkIn,
       Existing, ExistingIn, SplitId, SplitIdIn, Kind, KindIn

LEMMA LogOperatorsNext ==
  /\ OrderedSent' = SentIn(messages')
  /\ {[orderingIndex |-> OrderingIndex(n), payload |-> messages[n]] : n \in OrderedNumbers}'
       = NetworkIn(messages')
BY DEF OrderedSent, SentIn, OrderedNumbers, OrderedIn, OrderingIndex, IndexIn, NetworkIn,
       Kind, KindIn

\* What a frame says of its message is true.
FrameOf(log, f) ==
  /\ f.message \in DOMAIN log
  /\ f.kind = KindIn(log, f.message)
  /\ f.part \in 1..KindIn(log, f.message).parts
  /\ log[f.message][f.part] = f
  /\ log[f.message] = Whole(f.message, f.kind)

LEMMA FrameFacts ==
  ASSUME NEW log, NumberedLog(log), NEW f \in ExistingIn(log)
  PROVE  FrameOf(log, f) /\ f \in Fragment
<1>1. PICK n \in DOMAIN log : f \in Range(log[n])
  BY DEF ExistingIn
<1>2. log[n] = Whole(n, KindIn(log, n)) /\ KindIn(log, n) \in Kinds /\ log[n] \in Messages
  BY LogFacts
<1>3. PICK i \in 1..KindIn(log, n).parts : log[n][i] = f
  BY <1>1, <1>2, WholeFacts DEF Range
<1>4. f = [message |-> n, part |-> i, kind |-> KindIn(log, n)]
  <2>1. Whole(n, KindIn(log, n))[i] = [message |-> n, part |-> i, kind |-> KindIn(log, n)]
    BY <1>2, WholeFacts
  <2>2. QED
    BY <1>2, <1>3, <2>1
<1>5. FrameOf(log, f)
  BY <1>2, <1>3, <1>4 DEF FrameOf
<1>6. f \in Fragment
  BY <1>1, <1>2 DEF Fragment
<1>7. QED
  BY <1>5, <1>6

\* A longer log has the frames of the shorter one, and what they say stays true.
LEMMA ExtendedFrames ==
  ASSUME NEW log, NEW kind, NEW next, Extended(log, kind, next)
  PROVE  /\ ExistingIn(log) \subseteq ExistingIn(next)
         /\ Range(log) \subseteq Range(next)
<1>1. \A n \in DOMAIN log : n \in DOMAIN next /\ next[n] = log[n]
  BY DEF Extended
<1>2. QED
  BY <1>1 DEF ExistingIn, Range

\* The payloads of the ordering channel are the peer's ordered messages.
LEMMA OrderedPayloads ==
  ASSUME NEW log, NumberedLog(log), NEW n \in OrderedIn(log)
  PROVE  /\ log[n] \in OP!Payload
         /\ log[n] \in Ordered(KindIn(log, n).content)
         /\ \A content : log[n] \in Ordered(content) => content = KindIn(log, n).content
<1>1. /\ n \in DOMAIN log /\ KindIn(log, n).ordered
      /\ log[n] \in Messages /\ KindIn(log, n) = log[n][1].kind
      /\ KindIn(log, n) \in Kinds
  BY LogFacts DEF OrderedIn, KindIn
<1>2. KindIn(log, n).content \in {"ordinary", "malformed", "closing"}
  BY <1>1, KindsAssumption
<1>3. log[n] \in Ordered(KindIn(log, n).content)
  BY <1>1 DEF Ordered
<1>4. \A content : log[n] \in Ordered(content) => content = KindIn(log, n).content
  BY <1>1 DEF Ordered
<1>5. QED
  BY <1>2, <1>3, <1>4 DEF OP!Payload

-----------------------------------------------------------------------------
(* The start, and the peer's steps. *)

LEMMA IInvInit == Init => IInv /\ OP!Init
<1> SUFFICES ASSUME Init PROVE IInv /\ OP!Init
  OBVIOUS
<1>1. messages = <<>> /\ messages \in Seq(Messages) /\ DOMAIN messages = {} /\ Len(messages) = 0
  BY DEF Init
<1>2. PeerMatches /\ OrderedIn(messages) = {} /\ Cardinality(OrderedIn(messages)) = 0
  <2>1. OrderedIn(messages) = {}
    BY <1>1 DEF OrderedIn
  <2>2. Cardinality(OrderedIn(messages)) = 0
    BY <2>1, FS_EmptySet
  <2>3. QED
    BY <1>1, <2>1, <2>2, BoundsAssumption DEF PeerMatches, NumberedLog, IndexedLog
<1>3. FramesExist
  <2>1. IsFiniteSet({}) /\ Cardinality({}) = 0
    BY FS_EmptySet
  <2>2. datagrams = {} /\ acked = {} /\ inbox = <<>>
    BY DEF Init
  <2>3. <<>> \in Seq(ExistingIn(messages))
    OBVIOUS
  <2>4. Cardinality(datagrams) <= MaxDatagrams
    BY <2>1, <2>2, BoundsAssumption
  <2>5. QED
    BY <2>1, <2>2, <2>3, <2>4 DEF FramesExist
<1>4. BuffersMatch
  BY DEF Init, BuffersMatch
<1>5. plain \subseteq Range(messages) /\ AckedIsKeptOrNext
  BY DEF Init, AckedIsKeptOrNext
<1>6. OP!Init
  BY DEF Init, Ordering!Init, OP!Init
<1>7. OP!IInv
  BY <1>6, OP!IInvInit, OrderingAssumptions DEF OP!PayloadAssumption, OP!BoundAssumption
<1>8. QED
  BY <1>2, <1>3, <1>4, <1>5, <1>6, <1>7 DEF IInv

\* A step of deliverOrdered()'s specification keeps its invariant.
LEMMA OrderingStep ==
  ASSUME OP!IInv, [OP!Next]_(OP!vars)
  PROVE  OP!IInv'
<1>1. MaxMessages <= MaxMessages + 1
  BY BoundsAssumption
<1>2. QED
  BY <1>1, OP!IInvStep, OrderingAssumptions DEF OP!PayloadAssumption, OP!BoundAssumption

\* What the peer queues is for the ordering channel a payload sent, or nothing.
LEMMA PeerSendOrders ==
  ASSUME IInv, NEW kind \in Kinds, PeerSend(kind)
  PROVE  [OP!Next]_(OP!vars)
<1> DEFINE p == Whole(Len(messages) + 1, kind)
<1>1. /\ NumberedLog(messages) /\ IndexedLog(messages) /\ Len(messages) < MaxMessages
      /\ messages' = Append(messages, p)
      /\ UNCHANGED <<offered, session, nextExpectedOrderingIndex, orderedFrameBuffer, delivered>>
  BY DEF IInv, PeerMatches, PeerSend, ordering
<1>2. CASE ~kind.ordered
  <2>1. SentIn(messages') = SentIn(messages) /\ NetworkIn(messages') = NetworkIn(messages)
    BY <1>1, <1>2, AppendPlain
  <2>2. QED
    BY <1>1, <2>1, LogOperators, LogOperatorsNext DEF OP!vars, OP!server
<1>3. CASE kind.ordered
  <2>1. /\ SentIn(messages') = Append(SentIn(messages), p)
        /\ NetworkIn(messages') = NetworkIn(messages)
             \cup {[orderingIndex |-> Len(SentIn(messages)), payload |-> p]}
    BY <1>1, <1>3, AppendOrdered
  <2>2. /\ Len(SentIn(messages)) \in Nat
        /\ Len(SentIn(messages)) <= Len(messages)
        /\ \A i \in DOMAIN SentIn(messages) :
             \E n \in OrderedIn(messages) : SentIn(messages)[i] = messages[n]
    BY <1>1, SentFacts, CountsOfAll
  <2>3. Len(messages) \in Nat /\ MaxMessages \in Nat
    BY <1>1, BoundsAssumption DEF NumberedLog
  <2>4. Len(delivered) \in Nat
    BY DEF IInv, OP!IInv, OP!TypeOK
  <2>5. p \in OP!Payload
    <3>1. Extended(messages, kind, messages')
      BY <1>1, AppendExtends
    <3>2. /\ NumberedLog(messages') /\ messages'[Len(messages) + 1] = p
          /\ Len(messages) + 1 \in OrderedIn(messages')
      BY <1>3, <3>1 DEF Extended, OrderedIn
    <3>3. QED
      BY <3>2, OrderedPayloads
  <2>6. \A i \in DOMAIN OrderedSent : OrderedSent[i] \notin Ordered("closing")
    <3> SUFFICES ASSUME NEW i \in DOMAIN SentIn(messages) PROVE SentIn(messages)[i] \notin Ordered("closing")
      BY LogOperators
    <3>1. PICK n \in OrderedIn(messages) : SentIn(messages)[i] = messages[n]
      BY <2>2
    <3>2. Kind(n).content # "closing"
      BY <3>1 DEF PeerSend, OrderedIn
    <3>3. QED
      BY <1>1, <3>1, <3>2, LogOperators, OrderedPayloads
  <2>7. Len(OrderedSent) % (MaxMessages + 1) = Len(OrderedSent)
    <3> DEFINE k == Len(OrderedSent)
    <3>1. k \in Nat /\ MaxMessages + 1 \in Nat /\ k < MaxMessages + 1
      BY <1>1, <2>2, <2>3, LogOperators
    <3> HIDE DEF k
    <3>2. k % (MaxMessages + 1) = k
      BY <3>1, OP!SmallModulus
    <3>3. QED
      BY <3>2 DEF k
  <2>8. Len(OrderedSent) < MaxMessages /\ Len(OrderedSent) < Len(delivered) + (MaxMessages + 1)
    BY <1>1, <2>2, <2>3, <2>4, LogOperators
  <2> HIDE DEF p
  <2>9. PICK q \in OP!Payload : q = p
    BY <2>5
  <2>10. OP!PeerSend(q)
    BY <1>1, <2>1, <2>6, <2>7, <2>8, <2>9, LogOperators, LogOperatorsNext
       DEF OP!PeerSend, OP!server
  <2>11. OP!Next
    BY <2>10 DEF OP!Next
  <2>12. QED
    BY <2>11
<1>4. QED
  BY <1>2, <1>3

\* Frames of a datagram are the peer's.
LEMMA DatagramFrames ==
  ASSUME FramesExist, NEW d \in datagrams, NEW f \in Range(d)
  PROVE  f \in ExistingIn(messages)
BY DEF FramesExist, Range

LEMMA PeerSendStep ==
  ASSUME IInv, NEW kind \in Kinds, PeerSend(kind)
  PROVE  IInv'
<1>1. /\ NumberedLog(messages) /\ IndexedLog(messages) /\ Len(messages) < MaxMessages
      /\ messages' = Append(messages, Whole(Len(messages) + 1, kind))
      /\ UNCHANGED <<datagrams, acked, inbox, splitBuffers, plain, offered, session,
                     nextExpectedOrderingIndex, orderedFrameBuffer, delivered>>
  BY DEF IInv, PeerMatches, PeerSend, ordering
<1>2. Extended(messages, kind, messages')
  BY <1>1, AppendExtends
<1>3. /\ DOMAIN messages = 1..Len(messages)
      /\ \A n \in DOMAIN messages :
           /\ n \in DOMAIN messages' /\ messages'[n] = messages[n]
           /\ KindIn(messages', n) = KindIn(messages, n)
           /\ SplitIdIn(messages', n) = SplitIdIn(messages, n)
      /\ NumberedLog(messages')
  BY <1>2 DEF Extended
<1>4. /\ ExistingIn(messages) \subseteq ExistingIn(messages')
      /\ Range(messages) \subseteq Range(messages')
  BY <1>2, ExtendedFrames
<1>5. PeerMatches'
  <2>1. kind.ordered => IndexedLog(messages')
    BY <1>1, AppendOrdered
  <2>2. ~kind.ordered => IndexedLog(messages')
    BY <1>1, AppendPlain
  <2>3. QED
    BY <1>3, <2>1, <2>2 DEF PeerMatches
<1>6. FramesExist'
  <2>1. FramesExist
    BY DEF IInv
  <2>2. \A s \in Seq(ExistingIn(messages)) : s \in Seq(ExistingIn(messages'))
    BY <1>4, SeqMonotonic
  <2>3. QED
    BY <1>1, <2>1, <2>2 DEF FramesExist
<1>7. BuffersMatch'
  <2> SUFFICES ASSUME NEW id \in DOMAIN splitBuffers
               PROVE  \E n \in SplitIn(messages') :
                        SplitIdIn(messages', n) = id /\ BufferOf(messages', n, splitBuffers[id])
    BY <1>1 DEF BuffersMatch
  <2>1. PICK n \in SplitIn(messages) :
          SplitIdIn(messages, n) = id /\ BufferOf(messages, n, splitBuffers[id])
    BY DEF IInv, BuffersMatch
  <2>2. /\ n \in SplitIn(messages') /\ SplitIdIn(messages', n) = id
        /\ messages'[n] = messages[n] /\ KindIn(messages', n) = KindIn(messages, n)
    BY <1>3, <2>1 DEF SplitIn
  <2>3. BufferOf(messages', n, splitBuffers[id])
    BY <2>1, <2>2 DEF BufferOf
  <2>4. QED
    BY <2>2, <2>3
<1>8. plain' \subseteq Range(messages')
  BY <1>1, <1>4 DEF IInv
<1>9. OP!IInv'
  BY PeerSendOrders, OrderingStep DEF IInv
<1>10. AckedIsKeptOrNext'
  <2>1. AnyMalformed => AnyMalformed'
    BY <1>3, LogOperators DEF AnyMalformed, Kind, KindIn
  <2>2. ASSUME NEW d \in acked, NEW f \in Range(d)
        PROVE  messages'[f.message] = messages[f.message]
    <3>1. FramesExist /\ d \in datagrams
      BY DEF IInv, FramesExist
    <3>2. f \in ExistingIn(messages)
      BY <3>1, DatagramFrames
    <3>3. QED
      BY <1>1, <1>3, <3>2, FrameFacts DEF FrameOf
  <2>3. QED
    BY <1>1, <2>1, <2>2 DEF IInv, AckedIsKeptOrNext, Kept, Reached, InBuffer, OP!Held
<1>11. QED
  BY <1>5, <1>6, <1>7, <1>8, <1>9, <1>10 DEF IInv

\* Nothing but what a datagram or an acknowledgement adds.
LEMMA DatagramStep ==
  ASSUME IInv,
         UNCHANGED <<messages, splitBuffers, plain, offered, ordering>>
  PROVE  /\ PeerMatches' /\ BuffersMatch' /\ (plain \subseteq Range(messages))'
         /\ OP!IInv' /\ UNCHANGED OP!vars
         /\ (AnyMalformed' <=> AnyMalformed)
         /\ \A f : Reached(messages[f.message])' <=> Reached(messages[f.message])
         /\ \A f : InBuffer(f)' <=> InBuffer(f)
<1>1. UNCHANGED <<messages, splitBuffers, plain, offered, session,
                  nextExpectedOrderingIndex, orderedFrameBuffer, delivered>>
  BY DEF ordering
<1>2. UNCHANGED OP!vars
  BY <1>1, LogOperators, LogOperatorsNext DEF OP!vars, OP!server
<1>3. OP!IInv'
  BY <1>2, OrderingStep DEF IInv
<1>4. PeerMatches' /\ BuffersMatch' /\ (plain \subseteq Range(messages))'
  BY <1>1 DEF IInv, PeerMatches, BuffersMatch
<1>5. AnyMalformed' <=> AnyMalformed
  BY <1>1 DEF AnyMalformed, Kind
<1>6. /\ \A f : Reached(messages[f.message])' <=> Reached(messages[f.message])
      /\ \A f : InBuffer(f)' <=> InBuffer(f)
  BY <1>1 DEF Reached, InBuffer, OP!Held
<1>7. QED
  BY <1>2, <1>3, <1>4, <1>5, <1>6

LEMMA SendDatagramStep ==
  ASSUME IInv, NEW d \in Datagrams, SendDatagram(d)
  PROVE  IInv' /\ UNCHANGED OP!vars
<1>1. /\ UNCHANGED <<messages, splitBuffers, plain, offered, ordering>>
      /\ UNCHANGED <<acked, inbox>> /\ datagrams' = datagrams \cup {d}
      /\ Cardinality(datagrams) < MaxDatagrams
  BY DEF SendDatagram
<1>2. FramesExist'
  <2>1. d \in Seq(ExistingIn(messages))
    <3>1. Repeatable \subseteq Existing /\ Untransmitted \subseteq Existing
      BY DEF Repeatable, Untransmitted
    <3>2. \/ \E f \in Existing : d = <<f>>
          \/ \E f, g \in Existing : d = <<f, g>>
      BY <3>1 DEF Datagrams
    <3>3. \A E : \A f, g \in E : <<f>> \in Seq(E) /\ <<f, g>> \in Seq(E)
      OBVIOUS
    <3>4. d \in Seq(Existing)
      BY <3>2, <3>3
    <3>5. QED
      BY <3>4, LogOperators
  <2>2. FramesExist
    BY DEF IInv
  <2>3. IsFiniteSet(datagrams) /\ Cardinality(datagrams) \in Nat
    BY <2>2, FS_CardinalityType DEF FramesExist
  <2>4. IsFiniteSet(datagrams') /\ Cardinality(datagrams') <= Cardinality(datagrams) + 1
    BY <1>1, <2>3, FS_AddElement
  <2>5. Cardinality(datagrams') <= MaxDatagrams
    <3>1. Cardinality(datagrams') \in Nat
      BY <2>4, FS_CardinalityType
    <3>2. QED
      BY <1>1, <2>3, <2>4, <3>1, BoundsAssumption
  <2>6. messages' = messages
    BY <1>1
  <2>7. QED
    BY <1>1, <2>1, <2>2, <2>4, <2>5, <2>6 DEF FramesExist, ordering
<1>3. AckedIsKeptOrNext'
  BY <1>1, DatagramStep DEF IInv, AckedIsKeptOrNext, Kept, ordering
<1>4. QED
  BY <1>1, <1>2, <1>3, DatagramStep DEF IInv

\* The frames of a datagram are acknowledged when they come next.
LEMMA ReceiveDatagramStep ==
  ASSUME IInv, NEW d \in datagrams, ReceiveDatagram(d)
  PROVE  IInv' /\ UNCHANGED OP!vars
<1>1. /\ UNCHANGED <<messages, splitBuffers, plain, offered, ordering>>
      /\ UNCHANGED <<datagrams, session>>
      /\ acked' = acked \cup {d} /\ inbox' = d
      /\ session = "open" /\ inbox = <<>>
  BY DEF ReceiveDatagram, ordering
<1>2. FramesExist'
  BY <1>1 DEF IInv, FramesExist
<1>3. AckedIsKeptOrNext'
  <2> SUFFICES ASSUME session' = "open", ~AnyMalformed', NEW e \in acked', NEW f \in Range(e)
               PROVE  Kept(f)'
    BY DEF AckedIsKeptOrNext
  <2>1. CASE e = d
    BY <1>1, <2>1 DEF Kept
  <2>2. CASE e \in acked
    <3>1. Kept(f)
      BY <1>1, <2>2, DatagramStep DEF IInv, AckedIsKeptOrNext
    <3>2. f \notin Range(inbox)
      BY <1>1 DEF Range
    <3>3. QED
      BY <1>1, <3>1, <3>2, DatagramStep DEF Kept
  <2>3. QED
    BY <1>1, <2>1, <2>2
<1>4. QED
  BY <1>1, <1>2, <1>3, DatagramStep DEF IInv

-----------------------------------------------------------------------------
(* Reassembly. *)

\* What the split buffer of frame f's message has with f in it.
StoredAs(f, n, buffer) ==
  /\ n \in SplitIn(messages)
  /\ buffer.splitCount = KindIn(messages, n).parts
  /\ DOMAIN buffer.fragments \subseteq 1..KindIn(messages, n).parts
  /\ \A i \in DOMAIN buffer.fragments : buffer.fragments[i] = messages[n][i]
  /\ f.part \in DOMAIN buffer.fragments /\ buffer.fragments[f.part] = f
  /\ Key(f) \in DOMAIN splitBuffers =>
       DOMAIN splitBuffers[Key(f)].fragments \subseteq DOMAIN buffer.fragments

\* The buffer under a split message's id is its own.
LEMMA BufferIsOwn ==
  ASSUME MaxMessages <= SplitIds, IInv, NEW n \in SplitIn(messages),
         SplitIdIn(messages, n) \in DOMAIN splitBuffers
  PROVE  BufferOf(messages, n, splitBuffers[SplitIdIn(messages, n)])
<1>1. NumberedLog(messages)
  BY DEF IInv, PeerMatches
<1>2. PICK m \in SplitIn(messages) :
        /\ SplitIdIn(messages, m) = SplitIdIn(messages, n)
        /\ BufferOf(messages, m, splitBuffers[SplitIdIn(messages, n)])
  BY DEF IInv, BuffersMatch
<1>3. m = n
  BY <1>1, <1>2, SplitIdFacts
<1>4. QED
  BY <1>2, <1>3

LEMMA StoredFacts ==
  ASSUME MaxMessages <= SplitIds, IInv, NEW f \in ExistingIn(messages), f.kind.parts > 1
  PROVE  /\ StoredAs(f, f.message, Stored(f))
         /\ Key(f) = SplitIdIn(messages, f.message)
<1> DEFINE n == f.message
           old == IF Key(f) \in DOMAIN splitBuffers THEN splitBuffers[Key(f)].fragments ELSE <<>>
<1>1. FrameOf(messages, f)
  BY FrameFacts DEF IInv, PeerMatches
<1>2. n \in SplitIn(messages) /\ f.kind = KindIn(messages, n)
  BY <1>1 DEF SplitIn, FrameOf
<1>3. Key(f) = SplitIdIn(messages, n)
  BY LogOperators DEF Key
<1>4. /\ DOMAIN old \subseteq 1..KindIn(messages, n).parts
      /\ \A i \in DOMAIN old : old[i] = messages[n][i]
  <2>1. CASE Key(f) \in DOMAIN splitBuffers
    <3>1. BufferOf(messages, n, splitBuffers[Key(f)])
      BY <1>2, <1>3, <2>1, BufferIsOwn
    <3>2. QED
      BY <2>1, <3>1 DEF BufferOf
  <2>2. CASE Key(f) \notin DOMAIN splitBuffers
    BY <2>2
  <2>3. QED
    BY <2>1, <2>2
<1>5. Stored(f) = [splitCount |-> f.kind.parts, fragments |-> Ordering!Put(old, f.part, f)]
  BY DEF Stored
<1>6. Key(f) \in DOMAIN splitBuffers => DOMAIN splitBuffers[Key(f)].fragments = DOMAIN old
  OBVIOUS
<1> DEFINE new == Ordering!Put(old, f.part, f)
<1> HIDE DEF old
<1>7. /\ DOMAIN new = DOMAIN old \cup {f.part}
      /\ new[f.part] = f
      /\ \A i \in DOMAIN old : i # f.part => new[i] = old[i]
  BY DEF Ordering!Put
<1> HIDE DEF new
<1>8. f.part \in 1..KindIn(messages, n).parts /\ messages[n][f.part] = f
  BY <1>1 DEF FrameOf
<1>9. \A i \in DOMAIN new : new[i] = messages[n][i]
  BY <1>4, <1>7, <1>8
<1>10. DOMAIN new \subseteq 1..KindIn(messages, n).parts
  BY <1>4, <1>7, <1>8
<1>11. Stored(f).splitCount = KindIn(messages, n).parts /\ Stored(f).fragments = new
  BY <1>2, <1>5 DEF new
<1>12. QED
  BY <1>2, <1>3, <1>6, <1>7, <1>9, <1>10, <1>11 DEF StoredAs

\* All fragments in the order of their indices are the buffer as it is.
LEMMA ReassembledWhole ==
  ASSUME NEW parts \in Nat \ {0}, NEW buffer, buffer.splitCount = parts,
         DOMAIN buffer.fragments = 1..parts
  PROVE  Reassembled(buffer) = [i \in 1..parts |-> buffer.fragments[i]]
<1> DEFINE all == {i \in 1..buffer.splitCount : i \in DOMAIN buffer.fragments}
<1>1. all = 1..parts /\ Cardinality(all) = parts
  <2>1. all = 1..parts
    OBVIOUS
  <2>2. Cardinality(1..parts) = parts
    BY FS_Interval
  <2>3. QED
    BY <2>1, <2>2
<1>2. ASSUME NEW i \in 1..parts
      PROVE  (CHOOSE j \in all : Cardinality({k \in all : k <= j}) = i) = i
  <2>1. ASSUME NEW j \in 1..parts
        PROVE  Cardinality({k \in all : k <= j}) = j
    <3>1. {k \in 1..parts : k <= j} = 1..j
      OBVIOUS
    <3>2. Cardinality(1..j) = j
      BY FS_Interval
    <3>3. QED
      BY <1>1, <3>1, <3>2
  <2>2. \A j \in all : Cardinality({k \in all : k <= j}) = i <=> j = i
    BY <1>1, <2>1
  <2>3. i \in all
    BY <1>1
  <2> HIDE DEF all
  <2>4. QED
    BY <2>2, <2>3
<1>3. Reassembled(buffer) =
        [i \in 1..Cardinality(all) |->
           buffer.fragments[CHOOSE j \in all : Cardinality({k \in all : k <= j}) = i]]
  BY DEF Reassembled
<1> HIDE DEF all
<1>4. QED
  BY <1>1, <1>2, <1>3

\* The fragment that completes its message puts it together.
LEMMA ReassembledFacts ==
  ASSUME MaxMessages <= SplitIds, IInv, NEW f \in ExistingIn(messages), f.kind.parts > 1,
         IsComplete(Stored(f))
  PROVE  Reassembled(Stored(f)) = messages[f.message]
<1> DEFINE n == f.message
           kind == KindIn(messages, n)
           frags == Stored(f).fragments
<1>1. StoredAs(f, n, Stored(f))
  BY StoredFacts
<1>2. /\ kind \in Kinds /\ messages[n] = Whole(n, kind) /\ kind.parts \in Nat \ {0}
      /\ DOMAIN Whole(n, kind) = 1..kind.parts
  <2>1. NumberedLog(messages) /\ n \in DOMAIN messages
    BY <1>1 DEF IInv, PeerMatches, StoredAs, SplitIn
  <2>2. QED
    BY <2>1, LogFacts, WholeFacts
<1>3. DOMAIN frags = 1..kind.parts
  <2>1. DOMAIN frags \in SUBSET (1..kind.parts)
    BY <1>1 DEF StoredAs
  <2>2. IsFiniteSet(1..kind.parts) /\ Cardinality(1..kind.parts) = kind.parts
    BY <1>2, FS_Interval
  <2>3. Cardinality(DOMAIN frags) >= kind.parts
    BY <1>1 DEF IsComplete, StoredAs
  <2> DEFINE D == DOMAIN frags
             I == 1..kind.parts
  <2>4. D \in SUBSET I /\ IsFiniteSet(I) /\ Cardinality(I) = kind.parts /\ Cardinality(D) >= kind.parts
    BY <2>1, <2>2, <2>3
  <2> HIDE DEF D, I
  <2>5. IsFiniteSet(D) /\ Cardinality(D) <= Cardinality(I) /\ (Cardinality(I) = Cardinality(D) => I = D)
    BY <2>4, FS_Subset
  <2>6. Cardinality(D) \in Nat
    BY <2>5, FS_CardinalityType
  <2>7. I = D
    BY <1>2, <2>4, <2>5, <2>6
  <2>8. QED
    BY <2>7 DEF D, I
<1>4. Reassembled(Stored(f)) = [i \in 1..kind.parts |-> frags[i]]
  <2>1. Stored(f).splitCount = kind.parts
    BY <1>1 DEF StoredAs
  <2>2. QED
    BY <1>2, <1>3, <2>1, ReassembledWhole
<1>5. \A i \in 1..kind.parts : frags[i] = Whole(n, kind)[i]
  BY <1>1, <1>2, <1>3 DEF StoredAs
<1>6. Whole(n, kind) = [i \in 1..kind.parts |-> Whole(n, kind)[i]]
  BY DEF Whole
<1> HIDE DEF frags, kind, n
<1>7. [i \in 1..kind.parts |-> frags[i]] = [i \in 1..kind.parts |-> Whole(n, kind)[i]]
  BY <1>5
<1>8. QED
  BY <1>2, <1>4, <1>6, <1>7 DEF n

\* A frame that is not split is its message.
LEMMA UnsplitFacts ==
  ASSUME NEW log, NumberedLog(log), NEW f \in ExistingIn(log), ~(f.kind.parts > 1)
  PROVE  <<f>> = log[f.message]
<1>1. FrameOf(log, f)
  BY FrameFacts
<1>2. f.kind \in Kinds /\ f.kind.parts \in Nat \ {0}
  BY <1>1, LogFacts, WholeFacts DEF FrameOf
<1>3. f.kind.parts = 1
  BY <1>2
<1>4. log[f.message] = Whole(f.message, f.kind) /\ f.part = 1 /\ log[f.message][1] = f
  BY <1>1, <1>3 DEF FrameOf
<1>5. Whole(f.message, f.kind) = <<Whole(f.message, f.kind)[1]>>
  BY <1>3 DEF Whole
<1>6. QED
  BY <1>4, <1>5

-----------------------------------------------------------------------------
(* A message handed on. *)

\* What handling message n's payload leaves behind.
HandedOn(n) ==
  /\ [OP!Next]_(OP!vars)
  /\ inbox' \in {Tail(inbox), <<>>}
  /\ inbox' # <<>> => session' = "open"
  /\ plain' \subseteq Range(messages)
  /\ session' = "open" /\ ~AnyMalformed =>
       /\ inbox' = Tail(inbox)
       /\ \A p : p = messages[n] \/ Reached(p) => Reached(p)'

LEMMA HandlePlainFacts ==
  ASSUME IInv, NEW f \in ExistingIn(messages), session = "open",
         UNCHANGED messages, HandlePlain(f, messages[f.message])
  PROVE  HandedOn(f.message)
<1>1. /\ f.kind.content = "malformed" => inbox' = <<>> /\ plain' = plain
      /\ f.kind.content # "malformed" =>
           inbox' = Tail(inbox) /\ plain' = plain \cup {messages[f.message]}
      /\ UNCHANGED <<messages, offered, session, nextExpectedOrderingIndex,
                     orderedFrameBuffer, delivered>>
  BY DEF HandlePlain, ordering
<1>2. UNCHANGED OP!vars
  BY <1>1, LogOperators, LogOperatorsNext DEF OP!vars, OP!server
<1>3. messages[f.message] \in Range(messages)
  BY FrameFacts DEF IInv, PeerMatches, FrameOf, Range
<1>4. f.kind.content = "malformed" => AnyMalformed
  BY FrameFacts DEF IInv, PeerMatches, FrameOf, AnyMalformed, Kind, KindIn
<1>5. f.kind.content # "malformed" =>
        \A p : p = messages[f.message] \/ Reached(p) => Reached(p)'
  BY <1>1 DEF Reached, OP!Held
<1>6. /\ plain' \subseteq Range(messages)
      /\ inbox' \in {Tail(inbox), <<>>}
  BY <1>1, <1>3 DEF IInv
<1>7. QED
  BY <1>1, <1>2, <1>4, <1>5, <1>6 DEF HandedOn

\* The frame deliverOrdered() is called with is one of the peer's.
LEMMA OrderedFrame ==
  ASSUME IInv, NEW f \in ExistingIn(messages), f.kind.ordered,
         NEW frame, frame = [orderingIndex |-> OrderingIndex(f.message),
                             payload |-> messages[f.message]]
  PROVE  frame \in NetworkIn(messages) /\ frame \in OP!Frame
<1> DEFINE n == f.message
<1>1. NumberedLog(messages) /\ FrameOf(messages, f)
  BY FrameFacts DEF IInv, PeerMatches
<1>2. n \in OrderedIn(messages)
  BY <1>1 DEF FrameOf, OrderedIn
<1>3. OrderingIndex(n) = IndexIn(messages, n)
  BY LogOperators
<1>4. IndexIn(messages, n) \in Nat /\ IndexIn(messages, n) <= MaxMessages /\ MaxMessages \in Nat
  BY <1>1, <1>2, IndexFacts, BoundsAssumption
<1>5. messages[n] \in OP!Payload
  BY <1>1, <1>2, OrderedPayloads
<1>6. IndexIn(messages, n) \in 0..((MaxMessages + 1) - 1)
  BY <1>4
<1>7. frame \in NetworkIn(messages)
  BY <1>2, <1>3 DEF NetworkIn
<1>8. frame \in OP!Frame
  BY <1>3, <1>5, <1>6 DEF OP!Frame
<1>9. QED
  BY <1>7, <1>8

\* An exception in the drain means that the peer sent a malformed batch.
LEMMA ThrewIsMalformed ==
  ASSUME IInv, session = "open", NEW frame \in NetworkIn(messages),
         NEW ready, ready = Ordering!Put(orderedFrameBuffer, frame.orderingIndex, frame.payload),
         NEW last \in DOMAIN ready, Ordering!Threw(ready, last)
  PROVE  AnyMalformed
<1>1. ready = OP!Put(orderedFrameBuffer, frame.orderingIndex, frame.payload)
  BY DEF OP!Put, Ordering!Put
<1>2. last \in Nat /\ last + 1 \in DOMAIN OrderedSent /\ ready[last] = OrderedSent[last + 1]
  BY <1>1, LogOperators, OP!ReadyIsSent, OrderingAssumptions
     DEF IInv, OP!PayloadAssumption, OP!BoundAssumption
<1>3. PICK n \in OrderedIn(messages) : ready[last] = messages[n]
  <2>1. NumberedLog(messages) /\ IndexedLog(messages) /\ last + 1 \in DOMAIN SentIn(messages)
    BY <1>2, LogOperators DEF IInv, PeerMatches
  <2>2. QED
    BY <1>2, <2>1, SentFacts, LogOperators
<1>4. messages[n] \in Ordered("malformed")
  BY <1>3 DEF Ordering!Threw
<1>5. KindIn(messages, n).content = "malformed"
  BY <1>3, <1>4, OrderedPayloads DEF IInv, PeerMatches
<1>6. QED
  BY <1>3, <1>5, LogOperators DEF AnyMalformed, OrderedIn

LEMMA HandleOrderedFacts ==
  ASSUME IInv, NEW f \in ExistingIn(messages), session = "open",
         UNCHANGED messages, HandleOrdered(f, messages[f.message])
  PROVE  HandedOn(f.message)
<1>1. PICK frame : frame = [orderingIndex |-> OrderingIndex(f.message),
                            payload |-> messages[f.message]]
  OBVIOUS
<1>2. f.kind.ordered /\ offered' = offered \cup {frame} /\ plain' = plain
  BY <1>1 DEF HandleOrdered
<1>3. frame \in NetworkIn(messages) /\ frame \in OP!Frame
  BY <1>1, <1>2, OrderedFrame
<1> DEFINE ready == Ordering!Put(orderedFrameBuffer, frame.orderingIndex, frame.payload)
<1>4. \/ (Ordering!DropStale(frame) \/ Ordering!BufferEarly(frame)) /\ inbox' = Tail(inbox)
      \/ /\ frame.orderingIndex = nextExpectedOrderingIndex
         /\ \E last \in DOMAIN ready :
              /\ Ordering!StopsAt(ready, last)
              /\ \/ Ordering!Drained(ready, last) /\ inbox' = Tail(inbox)
                 \/ (Ordering!Threw(ready, last) \/ Ordering!Closed(ready, last)) /\ inbox' = <<>>
  BY <1>1 DEF HandleOrdered
<1>5. OP!DropStale(frame) \/ OP!BufferEarly(frame) \/ OP!DeliverAndDrain(frame)
  <2>1. Ordering!DropStale(frame) => OP!DropStale(frame)
    BY DEF Ordering!DropStale, OP!DropStale, Ordering!server, OP!server
  <2>2. Ordering!BufferEarly(frame) => OP!BufferEarly(frame)
    BY DEF Ordering!BufferEarly, OP!BufferEarly, Ordering!Put, OP!Put
  <2>3. ready = OP!Put(orderedFrameBuffer, frame.orderingIndex, frame.payload)
    BY DEF OP!Put, Ordering!Put
  <2> HIDE DEF ready
  <2>4. \A last : /\ Ordering!StopsAt(ready, last) => OP!StopsAt(ready, last)
                  /\ Ordering!Drained(ready, last) => OP!Drained(ready, last)
                  /\ Ordering!Threw(ready, last) => OP!Threw(ready, last)
                  /\ Ordering!Closed(ready, last) => OP!Closed(ready, last)
    BY DEF Ordering!StopsAt, OP!StopsAt, Ordering!Drained, OP!Drained, Ordering!Threw, OP!Threw,
           Ordering!Closed, OP!Closed, Ordering!Run, OP!Run, Ordering!After, OP!After
  <2>5. QED
    BY <1>4, <2>1, <2>2, <2>3, <2>4 DEF OP!DeliverAndDrain
<1>6. OP!deliverOrdered(frame)
  BY <1>2, <1>3, <1>5, LogOperators, LogOperatorsNext DEF OP!deliverOrdered
<1>7. [OP!Next]_(OP!vars)
  BY <1>3, <1>6 DEF OP!Next
<1>8. /\ inbox' \in {Tail(inbox), <<>>}
      /\ inbox' # <<>> => session' = "open"
  BY <1>4 DEF Ordering!DropStale, Ordering!BufferEarly, Ordering!Drained, Ordering!server
<1>9. ASSUME session' = "open", ~AnyMalformed
      PROVE  /\ inbox' = Tail(inbox)
             /\ \A p : p = messages[f.message] \/ Reached(p) => Reached(p)'
  <2>1. inbox' = Tail(inbox)
    <3>1. \A last \in DOMAIN ready : ~Ordering!Threw(ready, last)
      BY <1>3, <1>9, ThrewIsMalformed
    <3>2. \A last : ~Ordering!Closed(ready, last)
      BY <1>9 DEF Ordering!Closed
    <3>3. QED
      BY <1>4, <3>1, <3>2
  <2>2. \A i \in DOMAIN OrderedSent : OrderedSent[i] \notin Ordered("malformed")
    <3>1. NumberedLog(messages) /\ IndexedLog(messages)
      BY DEF IInv, PeerMatches
    <3> SUFFICES ASSUME NEW i \in DOMAIN SentIn(messages)
                 PROVE  SentIn(messages)[i] \notin Ordered("malformed")
      BY LogOperators
    <3>2. PICK n \in OrderedIn(messages) : SentIn(messages)[i] = messages[n]
      BY <3>1, SentFacts
    <3>3. KindIn(messages, n).content # "malformed"
      BY <1>9, <3>2, LogOperators DEF AnyMalformed, OrderedIn
    <3>4. QED
      BY <3>1, <3>2, <3>3, OrderedPayloads
  <2>3. \A p : p = frame.payload \/ OP!Held(p) => OP!Held(p)'
    BY <1>3, <1>6, <1>9, <2>2, OP!NothingForgotten, OrderingAssumptions
       DEF IInv, OP!PayloadAssumption, OP!BoundAssumption
  <2>4. frame.payload = messages[f.message]
    BY <1>1
  <2>5. QED
    BY <1>2, <2>1, <2>3, <2>4 DEF Reached
<1>10. QED
  BY <1>2, <1>7, <1>8, <1>9 DEF HandedOn, IInv

-----------------------------------------------------------------------------
(* The frame loop's step. *)

LEMMA InboxFacts ==
  ASSUME IInv, inbox # <<>>
  PROVE  /\ session = "open"
         /\ Head(inbox) \in ExistingIn(messages)
         /\ Tail(inbox) \in Seq(ExistingIn(messages)) /\ <<>> \in Seq(ExistingIn(messages))
         /\ \A f \in Range(inbox) : f = Head(inbox) \/ f \in Range(Tail(inbox))
<1>1. inbox \in Seq(ExistingIn(messages)) /\ session = "open"
  BY DEF IInv, FramesExist
<1>2. ASSUME NEW f \in Range(inbox) PROVE f = Head(inbox) \/ f \in Range(Tail(inbox))
  <2>1. PICK i \in 1..Len(inbox) : inbox[i] = f
    BY <1>1 DEF Range
  <2>2. CASE i = 1
    BY <1>1, <2>1, <2>2
  <2>3. CASE i # 1
    <3>1. i - 1 \in DOMAIN Tail(inbox) /\ Tail(inbox)[i - 1] = f
      BY <1>1, <2>1, <2>3, HeadTailProperties
    <3>2. QED
      BY <3>1 DEF Range
  <2>4. QED
    BY <2>2, <2>3
<1>3. QED
  BY <1>1, <1>2

\* What every way to handle a frame has in common.
LEMMA FrameStep ==
  ASSUME IInv, inbox # <<>>, UNCHANGED <<messages, datagrams, acked>>,
         [OP!Next]_(OP!vars),
         inbox' \in {Tail(inbox), <<>>}, inbox' # <<>> => session' = "open",
         plain' \subseteq Range(messages), BuffersMatch',
         session' = "open" /\ ~AnyMalformed => \A f : Kept(f) => Kept(f)'
  PROVE  IInv'
<1>1. session = "open"
  BY InboxFacts
<1>2. PeerMatches'
  BY DEF IInv, PeerMatches
<1>3. FramesExist'
  BY InboxFacts DEF IInv, FramesExist
<1>4. OP!IInv'
  BY OrderingStep DEF IInv
<1>5. AckedIsKeptOrNext'
  BY <1>1 DEF IInv, AckedIsKeptOrNext, AnyMalformed, Kind
<1>6. QED
  BY <1>2, <1>3, <1>4, <1>5 DEF IInv

LEMMA WaitStep ==
  ASSUME MaxMessages <= SplitIds, IInv, inbox # <<>>, UNCHANGED <<messages, datagrams, acked>>,
         NEW f, f = Head(inbox), f.kind.parts > 1, WaitForFragments(f)
  PROVE  IInv' /\ UNCHANGED OP!vars
<1> DEFINE n == f.message
           key == Key(f)
           buffer == Stored(f)
<1>1. /\ f \in ExistingIn(messages) /\ session = "open"
      /\ \A g \in Range(inbox) : g = f \/ g \in Range(Tail(inbox))
  BY InboxFacts
<1>2. /\ ~IsComplete(buffer)
      /\ splitBuffers' = Ordering!Put(splitBuffers, key, buffer)
      /\ inbox' = Tail(inbox)
      /\ UNCHANGED <<plain, offered, session, nextExpectedOrderingIndex,
                     orderedFrameBuffer, delivered>>
  BY DEF WaitForFragments, ordering
<1>3. StoredAs(f, n, buffer) /\ key = SplitIdIn(messages, n) /\ n \in SplitIn(messages)
  <2>1. StoredAs(f, n, buffer) /\ key = SplitIdIn(messages, n)
    BY <1>1, StoredFacts
  <2>2. QED
    BY <2>1 DEF StoredAs
<1>4. BufferOf(messages, n, buffer)
  <2>1. KindIn(messages, n).parts \in Nat
    BY <1>3, LogFacts, WholeFacts DEF IInv, PeerMatches, SplitIn
  <2>2. Cardinality(DOMAIN buffer.fragments) \in Nat
    <3> DEFINE D == DOMAIN buffer.fragments
               I == 1..KindIn(messages, n).parts
    <3>1. D \in SUBSET I /\ IsFiniteSet(I)
      BY <1>3, <2>1, FS_Interval DEF StoredAs
    <3> HIDE DEF D, I
    <3>2. Cardinality(D) \in Nat
      BY <3>1, FS_Subset, FS_CardinalityType
    <3>3. QED
      BY <3>2 DEF D
  <2>3. Cardinality(DOMAIN buffer.fragments) < buffer.splitCount
    <3>1. ~(Cardinality(DOMAIN buffer.fragments) >= buffer.splitCount)
      BY <1>2 DEF IsComplete
    <3>2. buffer.splitCount \in Nat
      BY <1>3, <2>1 DEF StoredAs
    <3> HIDE DEF buffer
    <3>3. QED
      BY <2>2, <3>1, <3>2
  <2> HIDE DEF buffer, n, key
  <2>4. QED
    BY <1>3, <2>3 DEF BufferOf, StoredAs
<1> HIDE DEF buffer
<1>5. /\ DOMAIN splitBuffers' = DOMAIN splitBuffers \cup {key}
      /\ splitBuffers'[key] = buffer
      /\ \A id \in DOMAIN splitBuffers : id # key => splitBuffers'[id] = splitBuffers[id]
  BY <1>2 DEF Ordering!Put
<1>6. BuffersMatch'
  <2> SUFFICES ASSUME NEW id \in DOMAIN splitBuffers'
               PROVE  \E m \in SplitIn(messages) :
                        SplitIdIn(messages, m) = id /\ BufferOf(messages, m, splitBuffers'[id])
    BY DEF BuffersMatch
  <2>1. CASE id = key
    BY <1>3, <1>4, <1>5, <2>1
  <2>2. CASE id # key
    BY <1>5, <2>2 DEF IInv, BuffersMatch
  <2>3. QED
    BY <2>1, <2>2
<1>7. ASSUME NEW g, Kept(g) PROVE Kept(g)'
  <2>1. Reached(messages[g.message]) => Reached(messages[g.message])'
    BY <1>2 DEF Reached, OP!Held
  <2>2. ASSUME InBuffer(g) PROVE InBuffer(g)'
    <3>1. PICK id \in DOMAIN splitBuffers : g \in Range(splitBuffers[id].fragments)
      BY <2>2 DEF InBuffer
    <3>2. CASE id # key
      BY <1>5, <3>1, <3>2 DEF InBuffer
    <3>3. CASE id = key
      <4>1. PICK i \in DOMAIN splitBuffers[key].fragments : g = splitBuffers[key].fragments[i]
        BY <3>1, <3>3 DEF Range
      <4>2. BufferOf(messages, n, splitBuffers[key])
        BY <1>3, <3>1, <3>3, BufferIsOwn
      <4>3. g = messages[n][i]
        BY <4>1, <4>2 DEF BufferOf
      <4>4. i \in DOMAIN buffer.fragments
        BY <1>3, <3>1, <3>3, <4>1 DEF StoredAs
      <4>5. buffer.fragments[i] = messages[n][i]
        BY <1>3, <4>4 DEF StoredAs
      <4>6. g \in Range(buffer.fragments)
        BY <4>3, <4>4, <4>5 DEF Range
      <4>7. QED
        BY <1>5, <4>6 DEF InBuffer
    <3>4. QED
      BY <3>2, <3>3
  <2>3. ASSUME g = f PROVE InBuffer(g)'
    <3>1. g \in Range(buffer.fragments)
      BY <1>3, <2>3 DEF StoredAs, Range
    <3>2. QED
      BY <1>5, <3>1 DEF InBuffer
  <2>4. QED
    BY <1>1, <1>2, <1>7, <2>1, <2>2, <2>3 DEF Kept
<1>8. UNCHANGED OP!vars
  BY <1>2, LogOperators, LogOperatorsNext DEF OP!vars, OP!server
<1>9. plain' \subseteq Range(messages) /\ session' = "open"
  BY <1>1, <1>2 DEF IInv
<1>10. QED
  BY <1>2, <1>6, <1>7, <1>8, <1>9, FrameStep

\* A message handed on: what was in a buffer erased with it is reached.
LEMMA HandOnStep ==
  ASSUME MaxMessages <= SplitIds, IInv, inbox # <<>>, UNCHANGED <<messages, datagrams, acked>>,
         NEW f, f = Head(inbox), HandedOn(f.message),
         session' # "open" => splitBuffers' = <<>>,
         session' = "open" =>
           \/ splitBuffers' = splitBuffers
           \/ /\ f.kind.parts > 1
              /\ splitBuffers' = Restrict(splitBuffers, DOMAIN splitBuffers \ {Key(f)})
  PROVE  IInv' /\ [OP!Next]_(OP!vars)
<1> DEFINE n == f.message
           key == Key(f)
<1>1. /\ f \in ExistingIn(messages) /\ session = "open"
      /\ \A g \in Range(inbox) : g = f \/ g \in Range(Tail(inbox))
  BY InboxFacts
<1>2. /\ DOMAIN splitBuffers' \subseteq DOMAIN splitBuffers
      /\ \A id \in DOMAIN splitBuffers' : splitBuffers'[id] = splitBuffers[id]
  BY DEF Restrict
<1>3. BuffersMatch'
  BY <1>2 DEF IInv, BuffersMatch
<1>4. ASSUME session' = "open", ~AnyMalformed, NEW g, Kept(g) PROVE Kept(g)'
  <2>1. /\ inbox' = Tail(inbox)
        /\ \A p : p = messages[n] \/ Reached(p) => Reached(p)'
    BY <1>4 DEF HandedOn
  <2>2. ASSUME InBuffer(g) PROVE InBuffer(g)' \/ g.message = n
    <3>1. PICK id \in DOMAIN splitBuffers : g \in Range(splitBuffers[id].fragments)
      BY <2>2 DEF InBuffer
    <3>2. CASE id \in DOMAIN splitBuffers'
      BY <1>2, <3>1, <3>2 DEF InBuffer
    <3>3. CASE id \notin DOMAIN splitBuffers'
      <4>1. f.kind.parts > 1 /\ id = key
        BY <1>4, <3>1, <3>3 DEF Restrict
      <4>2. n \in SplitIn(messages) /\ key = SplitIdIn(messages, n)
        <5>1. StoredAs(f, n, Stored(f)) /\ key = SplitIdIn(messages, n)
          BY <1>1, <4>1, StoredFacts
        <5>2. QED
          BY <5>1 DEF StoredAs
      <4>3. BufferOf(messages, n, splitBuffers[key])
        BY <3>1, <4>1, <4>2, BufferIsOwn
      <4>4. PICK i \in DOMAIN splitBuffers[key].fragments : g = splitBuffers[key].fragments[i]
        BY <3>1, <4>1 DEF Range
      <4>5. g = messages[n][i] /\ i \in 1..KindIn(messages, n).parts
        BY <4>3, <4>4 DEF BufferOf
      <4>6. g.message = n
        <5>1. messages[n] = Whole(n, KindIn(messages, n)) /\ KindIn(messages, n) \in Kinds
          BY <4>2, LogFacts DEF IInv, PeerMatches, SplitIn
        <5>2. Whole(n, KindIn(messages, n))[i] = [message |-> n, part |-> i, kind |-> KindIn(messages, n)]
          BY <4>5, <5>1, WholeFacts
        <5>3. QED
          BY <4>5, <5>1, <5>2
      <4>7. QED
        BY <4>6
    <3>4. QED
      BY <3>2, <3>3
  <2>3. ASSUME Reached(messages[g.message]) \/ g.message = n
        PROVE  Reached(messages[g.message])'
    <3>1. PICK p : p = messages[g.message]
      OBVIOUS
    <3>2. messages'[g.message] = p
      BY <3>1
    <3>3. Reached(p)'
      BY <2>1, <2>3, <3>1 DEF Reached, OP!Held
    <3>4. QED
      BY <3>2, <3>3 DEF Reached, OP!Held
  <2>4. g = f => g.message = n
    OBVIOUS
  <2>5. QED
    BY <1>1, <1>4, <2>1, <2>2, <2>3, <2>4 DEF Kept
<1>5. /\ [OP!Next]_(OP!vars)
      /\ inbox' \in {Tail(inbox), <<>>}
      /\ inbox' # <<>> => session' = "open"
      /\ plain' \subseteq Range(messages)
  BY DEF HandedOn
<1>6. IInv'
  BY <1>3, <1>4, <1>5, FrameStep
<1>7. QED
  BY <1>5, <1>6

LEMMA HandleFrameStep ==
  ASSUME MaxMessages <= SplitIds, IInv, HandleFrame
  PROVE  IInv' /\ [OP!Next]_(OP!vars)
<1>0. PICK f : f = Head(inbox)
  OBVIOUS
<1>1. inbox # <<>> /\ UNCHANGED <<messages, datagrams, acked>>
  BY DEF HandleFrame, peer
<1>2. f \in ExistingIn(messages) /\ session = "open" /\ NumberedLog(messages)
  BY <1>0, <1>1, InboxFacts DEF IInv, PeerMatches
<1>3. ASSUME HandlePayload(f, messages[f.message]) PROVE HandedOn(f.message)
  BY <1>1, <1>2, <1>3, HandlePlainFacts, HandleOrderedFacts DEF HandlePayload
<1>4. CASE f.kind.parts > 1 /\ WaitForFragments(f)
  BY <1>0, <1>1, <1>4, WaitStep
<1>5. CASE f.kind.parts > 1 /\ HandleReassembled(f)
  <2>1. Reassembled(Stored(f)) = messages[f.message]
    BY <1>2, <1>5, ReassembledFacts DEF HandleReassembled
  <2>2. HandedOn(f.message)
    BY <1>3, <1>5, <2>1 DEF HandleReassembled
  <2>3. splitBuffers' = IF session' # "open" THEN <<>>
                        ELSE Restrict(splitBuffers, DOMAIN splitBuffers \ {Key(f)})
    BY <1>5 DEF HandleReassembled
  <2>4. QED
    BY <1>0, <1>1, <1>5, <2>2, <2>3, HandOnStep
<1>6. CASE ~(f.kind.parts > 1) /\ HandleUnsplit(f)
  <2>1. <<f>> = messages[f.message]
    BY <1>2, <1>6, UnsplitFacts
  <2>2. HandedOn(f.message)
    BY <1>3, <1>6, <2>1 DEF HandleUnsplit
  <2>3. splitBuffers' = IF session' # "open" THEN <<>> ELSE splitBuffers
    BY <1>6 DEF HandleUnsplit
  <2>4. QED
    BY <1>0, <1>1, <2>2, <2>3, HandOnStep
<1>7. QED
  BY <1>0, <1>4, <1>5, <1>6 DEF HandleFrame

-----------------------------------------------------------------------------
(* The theorems. *)

LEMMA IInvStep ==
  ASSUME MaxMessages <= SplitIds, IInv, [Next]_vars
  PROVE  IInv' /\ [OP!Next]_(OP!vars)
<1>1. CASE \E kind \in Kinds : PeerSend(kind)
  BY <1>1, PeerSendStep, PeerSendOrders
<1>2. CASE \E d \in Datagrams : SendDatagram(d)
  BY <1>2, SendDatagramStep
<1>3. CASE \E d \in datagrams : ReceiveDatagram(d)
  BY <1>3, ReceiveDatagramStep
<1>4. CASE HandleFrame
  BY <1>4, HandleFrameStep
<1>5. CASE UNCHANGED vars
  <2>1. /\ UNCHANGED <<messages, splitBuffers, plain, offered, ordering>>
        /\ UNCHANGED <<messages, datagrams, acked, inbox, session>>
    BY <1>5 DEF vars, peer, ordering
  <2>2. FramesExist'
    BY <2>1 DEF IInv, FramesExist
  <2>3. AckedIsKeptOrNext'
    BY <2>1, DatagramStep DEF IInv, AckedIsKeptOrNext, Kept
  <2>4. QED
    BY <2>1, <2>2, <2>3, DatagramStep DEF IInv
<1>6. QED
  BY <1>1, <1>2, <1>3, <1>4, <1>5 DEF Next

LEMMA IInvTypes ==
  ASSUME MaxMessages <= SplitIds, IInv
  PROVE  TypeOK
<1>1. NumberedLog(messages)
  BY DEF IInv, PeerMatches
<1>2. messages \in Seq(Messages) /\ Len(messages) <= MaxMessages
  BY <1>1 DEF NumberedLog
<1>3. \A s \in Seq(ExistingIn(messages)) : s \in Seq(Fragment)
  <2>1. ExistingIn(messages) \subseteq Fragment
    BY <1>1, FrameFacts
  <2>2. QED
    BY <2>1, SeqMonotonic
<1>4. /\ datagrams \subseteq Seq(Fragment) /\ Cardinality(datagrams) <= MaxDatagrams
      /\ acked \subseteq datagrams /\ inbox \in Seq(Fragment)
  BY <1>3 DEF IInv, FramesExist
<1>5. ASSUME NEW id \in DOMAIN splitBuffers
      PROVE  /\ id \in 0..(SplitIds - 1)
             /\ splitBuffers[id].splitCount \in Nat
             /\ DOMAIN splitBuffers[id].fragments \in SUBSET (1..splitBuffers[id].splitCount)
  <2>1. PICK n \in SplitIn(messages) :
          SplitIdIn(messages, n) = id /\ BufferOf(messages, n, splitBuffers[id])
    BY DEF IInv, BuffersMatch
  <2>2. id \in 0..(SplitIds - 1)
    BY <1>1, <2>1, SplitIdFacts
  <2>3. KindIn(messages, n).parts \in Nat
    BY <1>1, <2>1, LogFacts, WholeFacts DEF SplitIn
  <2>4. QED
    BY <2>1, <2>2, <2>3 DEF BufferOf
<1>6. Ordering!TypeOK
  BY DEF IInv, OP!IInv, OP!TypeOK, Ordering!TypeOK, OP!Payload, Ordering!Payload,
         OP!Frame, Ordering!Frame
<1>7. QED
  BY <1>2, <1>4, <1>5, <1>6 DEF TypeOK, IInv

LEMMA IInvBuffers ==
  ASSUME IInv
  PROVE  BuffersOfOneMessage
<1> SUFFICES ASSUME NEW id \in DOMAIN splitBuffers
             PROVE  \E n \in DOMAIN messages :
                      /\ SplitId(n) = id
                      /\ splitBuffers[id].splitCount = Kind(n).parts
                      /\ Range(splitBuffers[id].fragments) \subseteq Range(messages[n])
                      /\ Cardinality(DOMAIN splitBuffers[id].fragments) < Kind(n).parts
  BY DEF BuffersOfOneMessage
<1>1. PICK n \in SplitIn(messages) :
        SplitIdIn(messages, n) = id /\ BufferOf(messages, n, splitBuffers[id])
  BY DEF IInv, BuffersMatch
<1>2. /\ n \in DOMAIN messages
      /\ messages[n] = Whole(n, KindIn(messages, n)) /\ KindIn(messages, n) \in Kinds
  BY <1>1, LogFacts DEF IInv, PeerMatches, SplitIn
<1>3. DOMAIN messages[n] = 1..KindIn(messages, n).parts
  BY <1>2, WholeFacts
<1>4. Range(splitBuffers[id].fragments) \subseteq Range(messages[n])
  BY <1>1, <1>3 DEF BufferOf, Range
<1>5. QED
  BY <1>1, <1>2, <1>4, LogOperators DEF BufferOf

LEMMA IInvKept ==
  ASSUME IInv
  PROVE  AckedIsKept
<1> SUFFICES ASSUME session = "open", inbox = <<>>, ~AnyMalformed, NEW d \in acked, NEW f \in Range(d)
             PROVE  \/ Handled(f.message)
                    \/ Whole(f.message, f.kind) \in Range(orderedFrameBuffer)
                    \/ \E id \in DOMAIN splitBuffers : f \in Range(splitBuffers[id].fragments)
  BY DEF AckedIsKept
<1>1. Kept(f) /\ f \notin Range(inbox)
  BY DEF IInv, AckedIsKeptOrNext, Range
<1>2. FrameOf(messages, f)
  <2>1. FramesExist /\ d \in datagrams /\ NumberedLog(messages)
    BY DEF IInv, FramesExist, PeerMatches
  <2>2. f \in ExistingIn(messages)
    BY <2>1, DatagramFrames
  <2>3. QED
    BY <2>1, <2>2, FrameFacts
<1>3. f.message \in DOMAIN messages /\ messages[f.message] = Whole(f.message, f.kind)
  BY <1>2 DEF FrameOf
<1>4. QED
  BY <1>1, <1>3 DEF Kept, Reached, InBuffer, Handled, OP!Held, OP!Range, Range

\* As long as split ids do not wrap, every variable keeps its type, among them
\* the payloads deliverOrdered() is called with: each is one of the peer's.
THEOREM TypeCorrect ==
  ASSUME MaxMessages <= SplitIds
  PROVE  Spec => []TypeOK
<1>1. Init => IInv
  BY IInvInit
<1>2. IInv /\ [Next]_vars => IInv'
  BY IInvStep
<1>3. IInv => TypeOK
  BY IInvTypes
<1>4. QED
  BY <1>1, <1>2, <1>3, PTL DEF Spec

\* A split buffer never mixes two messages and never keeps a complete one,
\* whatever is repeated, reordered and regrouped.
THEOREM ReassemblyCorrect ==
  ASSUME MaxMessages <= SplitIds
  PROVE  Spec => []BuffersOfOneMessage
<1>1. Init => IInv
  BY IInvInit
<1>2. IInv /\ [Next]_vars => IInv'
  BY IInvStep
<1>3. IInv => BuffersOfOneMessage
  BY IInvBuffers
<1>4. QED
  BY <1>1, <1>2, <1>3, PTL DEF Spec

\* Acknowledged before they are handled, the frames of a datagram are still
\* none of them lost: between two datagrams each was handled or waits.
THEOREM NothingAckedIsLost ==
  ASSUME MaxMessages <= SplitIds
  PROVE  Spec => []AckedIsKept
<1>1. Init => IInv
  BY IInvInit
<1>2. IInv /\ [Next]_vars => IInv'
  BY IInvStep
<1>3. IInv => AckedIsKept
  BY IInvKept
<1>4. QED
  BY <1>1, <1>2, <1>3, PTL DEF Spec

\* The frame loop with its reassembly implements the caller OrderedDelivery
\* assumes: what it hands to deliverOrdered() are the peer's messages, whole,
\* each under the index the peer gave it.
THEOREM LoopImplementsOrdering ==
  ASSUME MaxMessages <= SplitIds
  PROVE  Spec => ImplementsOrdering
<1>1. Init => IInv /\ Ordering!Init
  BY IInvInit DEF Init
<1>2. IInv /\ [Next]_vars => IInv'
  BY IInvStep
<1>3. IInv /\ [Next]_vars => [Ordering!Next]_(Ordering!vars)
  BY IInvStep
     DEF OP!Next, Ordering!Next, OP!vars, Ordering!vars, OP!server, Ordering!server,
         OP!PeerSend, Ordering!PeerSend, OP!deliverOrdered, Ordering!deliverOrdered,
         OP!DropStale, Ordering!DropStale, OP!BufferEarly, Ordering!BufferEarly,
         OP!DeliverAndDrain, Ordering!DeliverAndDrain, OP!StopsAt, Ordering!StopsAt,
         OP!Drained, Ordering!Drained, OP!Threw, Ordering!Threw, OP!Closed, Ordering!Closed,
         OP!Put, Ordering!Put, OP!Run, Ordering!Run, OP!After, Ordering!After,
         OP!Payload, Ordering!Payload, OP!Frame, Ordering!Frame
<1>4. QED
  BY <1>1, <1>2, <1>3, PTL DEF Spec, ImplementsOrdering, Ordering!Spec

\* From fragments to the game layer: through repeated, reordered and regrouped
\* datagrams, reassembly and ordered delivery, the messages of the ordering
\* channel arrive whole, once each and in the peer's order.
THEOREM LoopImplementsChannel ==
  ASSUME MaxMessages <= SplitIds
  PROVE  Spec => OP!ImplementsChannel
<1>1. Init => IInv /\ OP!Init
  BY IInvInit
<1>2. IInv /\ [Next]_vars => IInv'
  BY IInvStep
<1>3. IInv /\ [Next]_vars => [OP!Next]_(OP!vars)
  BY IInvStep
<1>4. Spec => OP!Spec
  BY <1>1, <1>2, <1>3, PTL DEF Spec, OP!Spec
<1>5. OP!Spec => OP!ImplementsChannel
  <2>1. MaxMessages <= MaxMessages + 1
    BY BoundsAssumption
  <2>2. QED
    BY <2>1, OP!DeliveryImplementsChannel, OrderingAssumptions
       DEF OP!PayloadAssumption, OP!BoundAssumption
<1>6. QED
  BY <1>4, <1>5
=============================================================================
