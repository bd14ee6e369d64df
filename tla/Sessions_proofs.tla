-------------------------- MODULE Sessions_proofs --------------------------
(***************************************************************************)
(* Proofs about Sessions, for every set of addresses and all bounds: the   *)
(* identifiers of the sessions are different, and a session handles the    *)
(* frames of its own client in order.                                      *)
(***************************************************************************)
EXTENDS Sessions, FiniteSetTheorems, TLAPS

\* No more connections than nextClientIndex has values.
IndexSpaceFits == MaxConnects <= IndexSpace

Session == [index : 0..(IndexSpace - 1), entityId : 2..(IndexSpace + 1),
            nextExpectedOrderingIndex : 0..(MaxSent + 1)]
Client  == [phase : Phases, run : 0..MaxConnects, sent : 0..(MaxSent + 1), crashed : BOOLEAN]
Handled == (1..MaxConnects) \X (0..MaxSent)

Types ==
  /\ clientStates \in UNION {[D -> Session] : D \in SUBSET Addresses}
  /\ nextClientIndex \in 0..(IndexSpace - 1)
  /\ clients \in [Addresses -> Client]
  /\ network \in [Addresses -> SUBSET (AnyFrame \cup {Request})]
  /\ replied \in SUBSET Addresses
  /\ handled \in [Addresses -> Seq(Handled)]
  /\ connects \in 0..MaxConnects /\ crashes \in 0..MaxCrashes

\* A client of the address is in the middle of the request of its connection, or
\* through with it.
Asking(a) ==
  /\ clients[a].run <= connects
  /\ clients[a].phase # "off" => clients[a].run >= 1
  /\ clients[a].phase \in {"asking", "connected"} => clients[a].sent <= MaxSent
  /\ Request \in network[a] => /\ network[a] = {Request}
                               /\ clients[a].phase \in {"asking", "off"}

\* What is under way from an address was sent by the client there.
SentByClient(a) ==
  \A f \in network[a] \ {Request} :
    /\ f.run = clients[a].run
    /\ f.orderingIndex < clients[a].sent
    /\ f.kind = "bye" => f.orderingIndex = clients[a].sent - 1
    /\ f.kind = "data" /\ clients[a].phase \in {"closing", "off"} =>
         f.orderingIndex < clients[a].sent - 1
    /\ f.kind = "bye" => clients[a].phase \in {"closing", "off"}

\* A session is behind its client, and ends with it.
OfClient(a) ==
  /\ clients[a].phase = "off" => a \notin DOMAIN clientStates /\ Request \notin network[a]
  /\ a \in DOMAIN clientStates =>
       /\ Len(handled[a]) = clientStates[a].nextExpectedOrderingIndex
       /\ Len(handled[a]) <= clients[a].sent
       /\ clients[a].phase = "closing" => Len(handled[a]) < clients[a].sent
       /\ \A i \in 1..Len(handled[a]) : handled[a][i] = <<clients[a].run, i - 1>>

AddressInv(a) == /\ Asking(a)
                 /\ ~clients[a].crashed => SentByClient(a) /\ OfClient(a)

\* Addresses that will get a session from the request under way there.
Pending == {a \in Addresses : Request \in network[a] /\ a \notin DOMAIN clientStates}

\* Every session made and every one to come has a connection of its own; the last
\* one may bring the index round to 0.
Counted ==
  \/ /\ IsFiniteSet(Pending)
     /\ nextClientIndex + Cardinality(Pending) <= connects
     /\ \A a \in DOMAIN clientStates : clientStates[a].index < nextClientIndex
  \/ connects = MaxConnects /\ Pending = {}

EntityOfIndex == \A a \in DOMAIN clientStates : clientStates[a].entityId = clientStates[a].index + 2

IInv == /\ Types
        /\ \A a \in Addresses : AddressInv(a)
        /\ EntityOfIndex

Unique == IndexSpaceFits => Counted /\ IdentifiersUnique

-----------------------------------------------------------------------------

LEMMA RequestIsNoFrame == \A f \in AnyFrame : f # Request /\ f.kind # "request"
BY DEF AnyFrame, Request

LEMMA StatesFacts ==
  ASSUME Types
  PROVE  /\ DOMAIN clientStates \in SUBSET Addresses
         /\ \A a \in DOMAIN clientStates : clientStates[a] \in Session
         /\ clientStates \in [DOMAIN clientStates -> Session]
BY DEF Types

LEMMA NextIndex ==
  ASSUME NEW n \in 0..(IndexSpace - 1)
  PROVE  (n + 1) % IndexSpace = IF n + 1 = IndexSpace THEN 0 ELSE n + 1
<1>1. IndexSpace \in Nat \ {0} /\ n \in Nat
  BY BoundAssumption
<1>2. CASE n + 1 = IndexSpace
  BY <1>1, <1>2
<1>3. CASE n + 1 < IndexSpace
  BY <1>1, <1>3
<1>4. QED
  BY <1>1, <1>2, <1>3

\* A step that leaves an address alone leaves its invariant alone.
LEMMA Elsewhere ==
  ASSUME NEW b \in Addresses, AddressInv(b), Types,
         clients'[b] = clients[b], network'[b] = network[b], handled'[b] = handled[b],
         b \in DOMAIN clientStates' <=> b \in DOMAIN clientStates,
         b \in DOMAIN clientStates => clientStates'[b] = clientStates[b],
         connects' \in Int, connects <= connects'
  PROVE  AddressInv(b)'
<1>1. Asking(b)'
  BY DEF AddressInv, Asking, Types, Client
<1>2. SentByClient(b) => SentByClient(b)'
  BY DEF SentByClient
<1>3. OfClient(b) => OfClient(b)'
  BY DEF OfClient
<1>4. QED
  BY <1>1, <1>2, <1>3 DEF AddressInv

\* A client with another phase, or one frame more sent.
LEMMA ClientChanged ==
  ASSUME NEW c \in Client, NEW p
  PROVE  /\ [c EXCEPT !.phase = p] =
              [phase |-> p, run |-> c.run, sent |-> c.sent, crashed |-> c.crashed]
         /\ [c EXCEPT !.sent = p] =
              [phase |-> c.phase, run |-> c.run, sent |-> p, crashed |-> c.crashed]
BY DEF Client

LEMMA InitInv == Init => IInv
<1> SUFFICES ASSUME Init PROVE IInv
  OBVIOUS
<1>1. Types
  <2>1. clientStates \in [{} -> Session]
    BY DEF Init
  <2>2. [phase |-> "off", run |-> 0, sent |-> 0, crashed |-> FALSE] \in Client
    BY BoundAssumption DEF Client, Phases
  <2>3. clients \in [Addresses -> Client]
    BY <2>2 DEF Init
  <2>4. handled \in [Addresses -> Seq(Handled)]
    BY DEF Init
  <2>5. clientStates \in UNION {[D -> Session] : D \in SUBSET Addresses}
    BY <2>1
  <2>6. /\ nextClientIndex \in 0..(IndexSpace - 1)
        /\ network \in [Addresses -> SUBSET (AnyFrame \cup {Request})]
        /\ replied \in SUBSET Addresses
        /\ connects \in 0..MaxConnects /\ crashes \in 0..MaxCrashes
    BY BoundAssumption DEF Init
  <2>7. QED
    BY <2>3, <2>4, <2>5, <2>6 DEF Types
<1>2. ASSUME NEW a \in Addresses PROVE AddressInv(a)
  BY BoundAssumption DEF Init, AddressInv, Asking, SentByClient, OfClient
<1>3. EntityOfIndex
  BY DEF Init, EntityOfIndex
<1>4. QED
  BY <1>1, <1>2, <1>3 DEF IInv

LEMMA InitUnique == Init => Unique
<1> SUFFICES ASSUME Init, IndexSpaceFits PROVE Counted /\ IdentifiersUnique
  BY DEF Unique
<1>1. Pending = {}
  BY DEF Init, Pending
<1>2. IsFiniteSet(Pending) /\ Cardinality(Pending) = 0
  BY <1>1, FS_EmptySet
<1>3. QED
  BY <1>2 DEF Init, Counted, IdentifiersUnique

-----------------------------------------------------------------------------
(* The steps of the server *)

LEMMA NewSession ==
  ASSUME IInv, NEW a \in Addresses, a \notin DOMAIN clientStates, getOrCreateClient(a)
  PROVE  /\ DOMAIN clientStates' = DOMAIN clientStates \cup {a}
         /\ clientStates' \in [DOMAIN clientStates \cup {a} -> Session]
         /\ clientStates'[a] = [index |-> nextClientIndex, entityId |-> 2 + nextClientIndex,
                                nextExpectedOrderingIndex |-> 0]
         /\ \A b \in DOMAIN clientStates : clientStates'[b] = clientStates[b]
         /\ nextClientIndex' = (nextClientIndex + 1) % IndexSpace
         /\ nextClientIndex' \in 0..(IndexSpace - 1)
         /\ handled' = [handled EXCEPT ![a] = <<>>]
<1> DEFINE state == [index |-> nextClientIndex, entityId |-> 2 + nextClientIndex,
                     nextExpectedOrderingIndex |-> 0]
<1>1. /\ clientStates' = [b \in DOMAIN clientStates \cup {a} |->
                            IF b = a THEN state ELSE clientStates[b]]
      /\ nextClientIndex' = (nextClientIndex + 1) % IndexSpace
      /\ handled' = [handled EXCEPT ![a] = <<>>]
  BY DEF getOrCreateClient
<1>2. nextClientIndex \in 0..(IndexSpace - 1)
  BY DEF IInv, Types
<1>3. state \in Session
  BY <1>2, BoundAssumption DEF Session
<1>4. \A b \in DOMAIN clientStates : clientStates[b] \in Session
  BY StatesFacts DEF IInv
<1> HIDE DEF state
<1>5. clientStates' \in [DOMAIN clientStates \cup {a} -> Session]
  BY <1>1, <1>3, <1>4
<1>6. nextClientIndex' \in 0..(IndexSpace - 1)
  BY <1>1, <1>2, NextIndex, BoundAssumption
<1>7. QED
  BY <1>1, <1>5, <1>6 DEF state

LEMMA RequestStep ==
  ASSUME IInv, NEW a \in Addresses, decodeOpenConnectionRequestTwo(a)
  PROVE  IInv'
<1>1. /\ Request \in network[a]
      /\ getOrCreateClient(a)
      /\ replied' = replied \cup {a}
      /\ UNCHANGED <<clients, network, connects, crashes>>
  BY DEF decodeOpenConnectionRequestTwo
<1>2. CASE a \in DOMAIN clientStates
  <2>1. UNCHANGED <<clientStates, nextClientIndex, handled>>
    BY <1>1, <1>2 DEF getOrCreateClient
  <2>2. Types'
    BY <1>1, <2>1 DEF IInv, Types
  <2>3. ASSUME NEW b \in Addresses PROVE AddressInv(b)'
    BY <1>1, <2>1 DEF IInv, AddressInv, Asking, SentByClient, OfClient
  <2>4. EntityOfIndex'
    BY <2>1 DEF IInv, EntityOfIndex
  <2>5. QED
    BY <2>2, <2>3, <2>4 DEF IInv
<1>3. CASE a \notin DOMAIN clientStates
  <2>1. /\ DOMAIN clientStates' = DOMAIN clientStates \cup {a}
        /\ clientStates' \in [DOMAIN clientStates \cup {a} -> Session]
        /\ clientStates'[a] = [index |-> nextClientIndex, entityId |-> 2 + nextClientIndex,
                               nextExpectedOrderingIndex |-> 0]
        /\ \A b \in DOMAIN clientStates : clientStates'[b] = clientStates[b]
        /\ nextClientIndex' \in 0..(IndexSpace - 1)
        /\ handled' = [handled EXCEPT ![a] = <<>>]
    BY <1>1, <1>3, NewSession
  <2>2. DOMAIN clientStates \cup {a} \in SUBSET Addresses
    BY StatesFacts DEF IInv
  <2>3. handled \in [Addresses -> Seq(Handled)] /\ handled' \in [Addresses -> Seq(Handled)]
    BY <2>1 DEF IInv, Types
  <2>4. Types'
    BY <1>1, <2>1, <2>2, <2>3 DEF IInv, Types
  <2>5. ASSUME NEW b \in Addresses, b # a PROVE AddressInv(b)'
    <3>1. handled'[b] = handled[b]
      BY <2>1, <2>3, <2>5
    <3>2. AddressInv(b) /\ Types /\ connects' \in Int /\ connects <= connects'
      BY <1>1, BoundAssumption DEF IInv, Types
    <3>3. QED
      BY <1>1, <2>1, <2>5, <3>1, <3>2, Elsewhere
  <2>6. AddressInv(a)'
    <3>1. handled'[a] = <<>> /\ clientStates'[a].nextExpectedOrderingIndex = 0
      BY <2>1, <2>3
    <3>2. AddressInv(a) /\ clients[a] \in Client
      BY DEF IInv, Types
    <3>3. Asking(a)' /\ (SentByClient(a) => SentByClient(a)')
      BY <1>1, <3>2 DEF AddressInv, Asking, SentByClient
    <3>4. ~clients[a].crashed => OfClient(a)'
      <4> SUFFICES ASSUME ~clients[a].crashed PROVE OfClient(a)'
        OBVIOUS
      <4>1. clients[a].phase = "asking"
        BY <1>1, <3>2 DEF AddressInv, Asking, OfClient
      <4>2. QED
        BY <1>1, <3>1, <3>2, <4>1, BoundAssumption DEF OfClient, Client
    <3>5. QED
      BY <1>1, <3>2, <3>3, <3>4 DEF AddressInv
  <2>7. EntityOfIndex'
    <3>1. nextClientIndex \in Nat
      BY BoundAssumption DEF IInv, Types
    <3>2. QED
      BY <2>1, <3>1 DEF IInv, EntityOfIndex
  <2>8. QED
    BY <2>4, <2>5, <2>6, <2>7 DEF IInv
<1>4. QED
  BY <1>2, <1>3

LEMMA FrameStep ==
  ASSUME IInv, NEW a \in Addresses, NEW f, processFrameContent(a, f)
  PROVE  IInv'
<1>1. /\ f \in network[a] /\ f # Request
      /\ a \in DOMAIN clientStates
      /\ f.orderingIndex = clientStates[a].nextExpectedOrderingIndex
      /\ IF f.kind = "bye" THEN removeClient(a) ELSE Advance(a)
      /\ handled' = [handled EXCEPT ![a] = Append(@, <<f.run, f.orderingIndex>>)]
      /\ UNCHANGED <<nextClientIndex, clients, network, replied, connects, crashes>>
  BY DEF processFrameContent
<1>2. /\ f \in AnyFrame
      /\ f.run \in 1..MaxConnects /\ f.orderingIndex \in 0..MaxSent /\ f.kind \in {"data", "bye"}
  BY <1>1 DEF IInv, Types, AnyFrame
<1>3. /\ DOMAIN clientStates \in SUBSET Addresses
      /\ \A b \in DOMAIN clientStates : clientStates[b] \in Session
      /\ clientStates \in [DOMAIN clientStates -> Session]
  BY StatesFacts DEF IInv
<1>4. handled[a] \in Seq(Handled) /\ <<f.run, f.orderingIndex>> \in Handled
  BY <1>2 DEF IInv, Types, Handled
<1>5. handled' \in [Addresses -> Seq(Handled)]
  BY <1>1, <1>4 DEF IInv, Types
<1>6. /\ handled'[a] = Append(handled[a], <<f.run, f.orderingIndex>>)
      /\ \A b \in Addresses : b # a => handled'[b] = handled[b]
  BY <1>1 DEF IInv, Types
<1>7. /\ f.kind = "bye" => DOMAIN clientStates' = DOMAIN clientStates \ {a}
      /\ f.kind # "bye" => /\ DOMAIN clientStates' = DOMAIN clientStates
                            /\ clientStates'[a] = [clientStates[a] EXCEPT
                                 !.nextExpectedOrderingIndex = f.orderingIndex + 1]
      /\ \A b \in DOMAIN clientStates \ {a} : clientStates'[b] = clientStates[b]
      /\ clientStates' = [b \in DOMAIN clientStates' |-> clientStates'[b]]
  <2>1. CASE f.kind = "bye"
    BY <1>1, <1>3, <2>1 DEF removeClient
  <2>2. CASE f.kind # "bye"
    BY <1>1, <1>3, <2>2 DEF Advance
  <2>3. QED
    BY <2>1, <2>2
<1>8. f.kind # "bye" =>
        /\ clientStates'[a] \in Session
        /\ clientStates'[a].nextExpectedOrderingIndex = f.orderingIndex + 1
        /\ clientStates'[a].index = clientStates[a].index
        /\ clientStates'[a].entityId = clientStates[a].entityId
  BY <1>1, <1>2, <1>3, <1>7, BoundAssumption DEF Session
<1>9. Types'
  <2>1. \A b \in DOMAIN clientStates' : clientStates'[b] \in Session
    BY <1>3, <1>7, <1>8
  <2>2. clientStates' \in [DOMAIN clientStates' -> Session] /\ DOMAIN clientStates' \in SUBSET Addresses
    BY <1>3, <1>7, <2>1
  <2>3. QED
    BY <1>1, <1>5, <2>2 DEF IInv, Types
<1>10. ASSUME NEW b \in Addresses, b # a PROVE AddressInv(b)'
  <2>1. AddressInv(b) /\ Types /\ connects' \in Int /\ connects <= connects'
    BY <1>1, BoundAssumption DEF IInv, Types
  <2>2. /\ handled'[b] = handled[b] /\ clients'[b] = clients[b] /\ network'[b] = network[b]
        /\ b \in DOMAIN clientStates' <=> b \in DOMAIN clientStates
        /\ b \in DOMAIN clientStates => clientStates'[b] = clientStates[b]
    BY <1>1, <1>6, <1>7, <1>10
  <2>3. QED
    BY <2>1, <2>2, Elsewhere
<1>11. AddressInv(a)'
  <2>1. AddressInv(a) /\ clients[a] \in Client
    BY DEF IInv, Types
  <2>2. Asking(a)' /\ (SentByClient(a) => SentByClient(a)')
    BY <1>1, <2>1 DEF AddressInv, Asking, SentByClient
  <2>3. ASSUME ~clients[a].crashed PROVE OfClient(a)'
    <3>1. SentByClient(a) /\ OfClient(a)
      BY <2>1, <2>3 DEF AddressInv
    <3>2. /\ f.run = clients[a].run /\ f.orderingIndex < clients[a].sent
          /\ clients[a].phase # "off" /\ Len(handled[a]) = f.orderingIndex
          /\ f.kind # "bye" /\ clients[a].phase = "closing" =>
               f.orderingIndex < clients[a].sent - 1
      BY <1>1, <1>2, <3>1 DEF SentByClient, OfClient
    <3>3. CASE f.kind = "bye"
      BY <1>1, <1>7, <3>2, <3>3 DEF OfClient
    <3>4. CASE f.kind # "bye"
      <4>1. Len(handled'[a]) = f.orderingIndex + 1
        BY <1>4, <1>6, <3>2
      <4>2. clients[a].sent \in Nat
        BY <2>1, BoundAssumption DEF Client
      <4>3. \A i \in 1..Len(handled'[a]) : handled'[a][i] = <<clients[a].run, i - 1>>
        BY <1>1, <1>2, <1>4, <1>6, <3>1, <3>2, <4>1 DEF OfClient
      <4>4. QED
        BY <1>1, <1>2, <1>8, <3>2, <3>4, <4>1, <4>2, <4>3 DEF OfClient
    <3>5. QED
      BY <3>3, <3>4
  <2>4. QED
    BY <1>1, <2>1, <2>2, <2>3 DEF AddressInv
<1>12. EntityOfIndex'
  BY <1>1, <1>7, <1>8 DEF IInv, EntityOfIndex
<1>13. QED
  BY <1>9, <1>10, <1>11, <1>12 DEF IInv

-----------------------------------------------------------------------------
(* The steps of a client *)

LEMMA AtOneAddress ==
  ASSUME IInv, NEW a \in Addresses, NEW c \in Client, NEW n \in SUBSET (AnyFrame \cup {Request}),
         clients' = [clients EXCEPT ![a] = c], network' = [network EXCEPT ![a] = n],
         UNCHANGED <<clientStates, nextClientIndex, handled>>,
         replied' \in SUBSET Addresses, connects' \in 0..MaxConnects, connects <= connects',
         crashes' \in 0..MaxCrashes, AddressInv(a)'
  PROVE  IInv'
<1>1. Types'
  BY DEF IInv, Types
<1>2. ASSUME NEW b \in Addresses PROVE AddressInv(b)'
  <2>1. CASE b = a
    BY <2>1
  <2>2. CASE b # a
    <3>1. /\ AddressInv(b) /\ Types /\ connects' \in Int
          /\ clients'[b] = clients[b] /\ network'[b] = network[b] /\ handled'[b] = handled[b]
          /\ b \in DOMAIN clientStates' <=> b \in DOMAIN clientStates
          /\ b \in DOMAIN clientStates => clientStates'[b] = clientStates[b]
      BY <2>2, BoundAssumption DEF IInv, Types
    <3>2. QED
      BY <3>1, Elsewhere
  <2>3. QED
    BY <2>1, <2>2
<1>3. EntityOfIndex'
  BY DEF IInv, EntityOfIndex
<1>4. QED
  BY <1>1, <1>2, <1>3 DEF IInv

LEMMA StartStep ==
  ASSUME IInv, NEW a \in Addresses, ClientStart(a)
  PROVE  IInv'
<1> DEFINE c == [phase |-> "asking", run |-> clients[a].run + 1, sent |-> 0,
                 crashed |-> clients[a].crashed]
<1>1. /\ clients[a].phase = "off" /\ connects < MaxConnects
      /\ clients' = [clients EXCEPT ![a] = c]
      /\ network' = [network EXCEPT ![a] = {Request}]
      /\ replied' = replied \ {a}
      /\ connects' = connects + 1
      /\ UNCHANGED <<clientStates, nextClientIndex, handled, crashes>>
  BY DEF ClientStart
<1>2. /\ Types /\ AddressInv(a) /\ clients[a] \in Client
      /\ clients \in [Addresses -> Client] /\ network \in [Addresses -> SUBSET (AnyFrame \cup {Request})]
  BY DEF IInv, Types
<1>3. /\ connects \in Nat /\ clients[a].run \in Nat /\ clients[a].run <= connects
      /\ clients[a].crashed \in BOOLEAN
  BY <1>2, BoundAssumption DEF AddressInv, Asking, Types, Client
<1>4. c \in Client
  BY <1>1, <1>3, BoundAssumption DEF Client, Phases
<1>5. clients'[a] = c /\ network'[a] = {Request}
  BY <1>1, <1>2
<1>6. Asking(a)'
  BY <1>1, <1>3, <1>5, BoundAssumption DEF Asking
<1>7. ~clients'[a].crashed => SentByClient(a)' /\ OfClient(a)'
  BY <1>1, <1>2, <1>5 DEF SentByClient, OfClient, AddressInv
<1>8. AddressInv(a)'
  BY <1>6, <1>7 DEF AddressInv
<1>9. /\ {Request} \in SUBSET (AnyFrame \cup {Request})
      /\ replied' \in SUBSET Addresses /\ connects' \in 0..MaxConnects /\ connects <= connects'
      /\ crashes' \in 0..MaxCrashes
  BY <1>1, <1>2, <1>3, BoundAssumption DEF Types
<1> HIDE DEF c
<1>10. QED
  BY <1>1, <1>4, <1>8, <1>9, AtOneAddress

\* The other steps change the client and what it has under way.
LEMMA ClientStep ==
  ASSUME IInv, NEW a \in Addresses,
         ClientConnected(a) \/ ClientSend(a) \/ ClientClose(a) \/ ClientGone(a) \/ ClientCrash(a)
  PROVE  IInv'
<1> DEFINE A == clients[a]
           N == network[a]
<1>1. /\ Types /\ AddressInv(a) /\ A \in Client /\ N \in SUBSET (AnyFrame \cup {Request})
      /\ clients \in [Addresses -> Client] /\ network \in [Addresses -> SUBSET (AnyFrame \cup {Request})]
  BY DEF IInv, Types
<1>2. /\ A.phase \in Phases /\ A.run \in Nat /\ A.sent \in Nat /\ A.crashed \in BOOLEAN
      /\ A.run <= MaxConnects /\ A.sent <= MaxSent + 1
      /\ A = [phase |-> A.phase, run |-> A.run, sent |-> A.sent, crashed |-> A.crashed]
  BY <1>1, BoundAssumption DEF Client
<1>3. /\ A.run <= connects
      /\ A.phase # "off" => A.run >= 1
      /\ A.phase \in {"asking", "connected"} => A.sent <= MaxSent
      /\ Request \in N => N = {Request} /\ A.phase \in {"asking", "off"}
  BY <1>1 DEF AddressInv, Asking
<1>4. /\ replied \in SUBSET Addresses /\ connects \in 0..MaxConnects /\ connects <= connects
      /\ crashes \in 0..MaxCrashes
  BY <1>1, BoundAssumption DEF Types
<1>5. CASE ClientConnected(a)
  <2> DEFINE c == [phase |-> "connected", run |-> A.run, sent |-> A.sent, crashed |-> A.crashed]
  <2>1. /\ A.phase = "asking"
        /\ clients' = [clients EXCEPT ![a] = c]
        /\ network' = [network EXCEPT ![a] = {}]
        /\ UNCHANGED <<clientStates, nextClientIndex, replied, handled, connects, crashes>>
    BY <1>1, <1>5, ClientChanged DEF ClientConnected
  <2>2. c \in Client /\ clients'[a] = c /\ network'[a] = {} /\ {} \in SUBSET (AnyFrame \cup {Request})
    BY <1>1, <1>2, <2>1, BoundAssumption DEF Client, Phases
  <2>3. AddressInv(a)'
    BY <1>1, <1>3, <2>1, <2>2 DEF AddressInv, Asking, SentByClient, OfClient
  <2> HIDE DEF c, A, N
  <2>4. QED
    BY <1>4, <2>1, <2>2, <2>3, AtOneAddress
<1>6. CASE ClientSend(a)
  <2> DEFINE c == [phase |-> A.phase, run |-> A.run, sent |-> A.sent + 1, crashed |-> A.crashed]
             f == [kind |-> "data", run |-> A.run, orderingIndex |-> A.sent]
  <2>1. /\ A.phase = "connected" /\ A.sent < MaxSent
        /\ clients' = [clients EXCEPT ![a] = c]
        /\ network' = [network EXCEPT ![a] = N \cup {f}]
        /\ UNCHANGED <<clientStates, nextClientIndex, replied, handled, connects, crashes>>
    BY <1>1, <1>6, ClientChanged DEF ClientSend, Frame
  <2>2. f \in AnyFrame /\ f # Request
    BY <1>2, <1>3, <2>1, BoundAssumption DEF AnyFrame, Request
  <2>3. /\ c \in Client /\ clients'[a] = c /\ network'[a] = N \cup {f}
        /\ N \cup {f} \in SUBSET (AnyFrame \cup {Request})
    BY <1>1, <1>2, <2>1, <2>2, BoundAssumption DEF Client
  <2>4. Asking(a)'
    BY <1>2, <1>3, <2>1, <2>2, <2>3, BoundAssumption DEF Asking
  <2>5. SentByClient(a) => SentByClient(a)'
    <3>1. \A g \in N \ {Request} : g.orderingIndex \in Nat
      BY <1>1, BoundAssumption DEF AnyFrame
    <3>2. QED
      BY <1>2, <2>1, <2>3, <3>1 DEF SentByClient
  <2>6. OfClient(a) => OfClient(a)'
    <3>1. handled[a] \in Seq(Handled)
      BY DEF IInv, Types
    <3>2. QED
      BY <1>2, <2>1, <2>3, <3>1 DEF OfClient
  <2>7. AddressInv(a)'
    BY <1>1, <2>3, <2>4, <2>5, <2>6 DEF AddressInv
  <2> HIDE DEF c, A, N, f
  <2>8. QED
    BY <1>4, <2>1, <2>3, <2>7, AtOneAddress
<1>7. CASE ClientClose(a)
  <2> DEFINE c == [phase |-> "closing", run |-> A.run, sent |-> A.sent + 1, crashed |-> A.crashed]
             f == [kind |-> "bye", run |-> A.run, orderingIndex |-> A.sent]
  <2>1. /\ A.phase = "connected"
        /\ clients' = [clients EXCEPT ![a] = c]
        /\ network' = [network EXCEPT ![a] = N \cup {f}]
        /\ UNCHANGED <<clientStates, nextClientIndex, replied, handled, connects, crashes>>
    BY <1>1, <1>2, <1>7 DEF ClientClose, Frame
  <2>2. f \in AnyFrame /\ f # Request
    BY <1>2, <1>3, <2>1, BoundAssumption DEF AnyFrame, Request
  <2>3. /\ c \in Client /\ clients'[a] = c /\ network'[a] = N \cup {f}
        /\ N \cup {f} \in SUBSET (AnyFrame \cup {Request})
    BY <1>1, <1>2, <1>3, <2>1, <2>2, BoundAssumption DEF Client, Phases
  <2>4. Asking(a)'
    BY <1>2, <1>3, <2>1, <2>2, <2>3, BoundAssumption DEF Asking
  <2>5. SentByClient(a) => SentByClient(a)'
    <3>1. \A g \in N \ {Request} : g.orderingIndex \in Nat
      BY <1>1, BoundAssumption DEF AnyFrame
    <3>2. QED
      BY <1>2, <2>1, <2>3, <3>1 DEF SentByClient
  <2>6. OfClient(a) => OfClient(a)'
    <3>1. handled[a] \in Seq(Handled)
      BY DEF IInv, Types
    <3>2. QED
      BY <1>2, <2>1, <2>3, <3>1 DEF OfClient
  <2>7. AddressInv(a)'
    BY <1>1, <2>3, <2>4, <2>5, <2>6 DEF AddressInv
  <2> HIDE DEF c, A, N, f
  <2>8. QED
    BY <1>4, <2>1, <2>3, <2>7, AtOneAddress
<1>8. CASE ClientGone(a)
  <2> DEFINE c == [phase |-> "off", run |-> A.run, sent |-> A.sent, crashed |-> A.crashed]
  <2>1. /\ A.phase = "closing" /\ handled[a] # <<>>
        /\ handled[a][Len(handled[a])] = <<A.run, A.sent - 1>>
        /\ clients' = [clients EXCEPT ![a] = c]
        /\ network' = [network EXCEPT ![a] = N]
        /\ UNCHANGED <<clientStates, nextClientIndex, replied, handled, connects, crashes>>
    BY <1>1, <1>8, ClientChanged DEF ClientGone
  <2>2. c \in Client /\ clients'[a] = c /\ network'[a] = N
    BY <1>1, <1>2, <2>1, BoundAssumption DEF Client, Phases
  <2>3. Asking(a)'
    BY <1>2, <1>3, <2>1, <2>2 DEF Asking
  <2>4. SentByClient(a) => SentByClient(a)'
    BY <2>1, <2>2 DEF SentByClient
  <2>5. OfClient(a) => OfClient(a)'
    <3> SUFFICES ASSUME OfClient(a) PROVE OfClient(a)'
      OBVIOUS
    <3>1. handled[a] \in Seq(Handled)
      BY DEF IInv, Types
    <3>2. Len(handled[a]) \in Nat /\ Len(handled[a]) \in 1..Len(handled[a])
      BY <2>1, <3>1
    <3>3. a \notin DOMAIN clientStates
      <4>1. SUFFICES ASSUME a \in DOMAIN clientStates PROVE FALSE
        OBVIOUS
      <4>2. handled[a][Len(handled[a])] = <<A.run, Len(handled[a]) - 1>> /\ Len(handled[a]) < A.sent
        BY <2>1, <3>2, <4>1 DEF OfClient
      <4>3. QED
        BY <1>2, <2>1, <3>2, <4>2
    <3>4. QED
      BY <1>3, <2>1, <2>2, <3>3 DEF OfClient
  <2>6. AddressInv(a)'
    BY <1>1, <2>2, <2>3, <2>4, <2>5 DEF AddressInv
  <2> HIDE DEF c, A, N
  <2>7. QED
    BY <1>1, <1>4, <2>1, <2>2, <2>6, AtOneAddress
<1>9. CASE ClientCrash(a)
  <2> DEFINE c == [phase |-> "off", run |-> A.run, sent |-> A.sent, crashed |-> TRUE]
  <2>1. /\ crashes < MaxCrashes /\ crashes' = crashes + 1
        /\ clients' = [clients EXCEPT ![a] = c]
        /\ network' = [network EXCEPT ![a] = N]
        /\ UNCHANGED <<clientStates, nextClientIndex, replied, handled, connects>>
    BY <1>1, <1>9 DEF ClientCrash
  <2>2. c \in Client /\ clients'[a] = c /\ network'[a] = N /\ crashes' \in 0..MaxCrashes
    BY <1>1, <1>2, <1>4, <2>1, BoundAssumption DEF Client, Phases
  <2>3. AddressInv(a)'
    BY <1>2, <1>3, <2>1, <2>2 DEF AddressInv, Asking
  <2> HIDE DEF c, A, N
  <2>4. QED
    BY <1>1, <1>4, <2>1, <2>2, <2>3, AtOneAddress
<1>10. QED
  BY <1>5, <1>6, <1>7, <1>8, <1>9

-----------------------------------------------------------------------------
(* The identifiers *)

\* Steps that make no session and no connection.
LEMMA CountedKept ==
  ASSUME Counted, Pending' \subseteq Pending,
         nextClientIndex' = nextClientIndex, connects' = connects,
         DOMAIN clientStates' \subseteq DOMAIN clientStates,
         \A b \in DOMAIN clientStates' : clientStates'[b].index = clientStates[b].index,
         connects \in Int, nextClientIndex \in Int
  PROVE  Counted'
<1>1. CASE connects = MaxConnects /\ Pending = {}
  BY <1>1 DEF Counted
<1>2. CASE /\ IsFiniteSet(Pending)
           /\ nextClientIndex + Cardinality(Pending) <= connects
           /\ \A a \in DOMAIN clientStates : clientStates[a].index < nextClientIndex
  <2>1. /\ IsFiniteSet(Pending') /\ Cardinality(Pending') <= Cardinality(Pending)
        /\ Cardinality(Pending) \in Nat /\ Cardinality(Pending') \in Nat
    BY <1>2, FS_Subset, FS_CardinalityType
  <2>2. nextClientIndex' + Cardinality(Pending') <= connects'
    BY <1>2, <2>1
  <2>3. \A b \in DOMAIN clientStates' : clientStates'[b].index < nextClientIndex'
    BY <1>2
  <2>4. QED
    BY <2>1, <2>2, <2>3 DEF Counted
<1>3. QED
  BY <1>1, <1>2 DEF Counted

LEMMA EntitiesFollow ==
  ASSUME IInv', \A a, b \in DOMAIN clientStates' :
                  a # b => clientStates'[a].index # clientStates'[b].index
  PROVE  IdentifiersUnique'
<1>1. PICK D \in SUBSET Addresses : clientStates' \in [D -> Session]
  BY DEF IInv, Types
<1>2. \A a \in DOMAIN clientStates' : clientStates'[a].index \in Int
  BY <1>1, BoundAssumption DEF Session
<1>3. \A a \in DOMAIN clientStates' : clientStates'[a].entityId = clientStates'[a].index + 2
  BY DEF IInv, EntityOfIndex
<1>4. QED
  BY <1>2, <1>3 DEF IdentifiersUnique

LEMMA UniqueKept ==
  ASSUME IInv, IInv', Counted, IdentifiersUnique, Pending' \subseteq Pending,
         nextClientIndex' = nextClientIndex, connects' = connects,
         DOMAIN clientStates' \subseteq DOMAIN clientStates,
         \A b \in DOMAIN clientStates' : clientStates'[b].index = clientStates[b].index
  PROVE  Counted' /\ IdentifiersUnique'
<1>1. connects \in Int /\ nextClientIndex \in Int
  BY BoundAssumption DEF IInv, Types
<1>2. Counted'
  BY <1>1, CountedKept
<1>3. \A a, b \in DOMAIN clientStates' : a # b => clientStates'[a].index # clientStates'[b].index
  BY DEF IdentifiersUnique
<1>4. QED
  BY <1>2, <1>3, EntitiesFollow

LEMMA UniqueRequest ==
  ASSUME IInv, IInv', Counted, IdentifiersUnique, IndexSpaceFits,
         NEW a \in Addresses, decodeOpenConnectionRequestTwo(a)
  PROVE  Counted' /\ IdentifiersUnique'
<1>1. /\ Request \in network[a]
      /\ getOrCreateClient(a)
      /\ UNCHANGED <<clients, network, connects, crashes>>
  BY DEF decodeOpenConnectionRequestTwo
<1>2. /\ Types /\ connects \in Nat /\ nextClientIndex \in Nat /\ nextClientIndex < IndexSpace
      /\ connects <= MaxConnects /\ IndexSpace \in Nat
  BY BoundAssumption DEF IInv, Types
<1>3. CASE a \in DOMAIN clientStates
  <2>1. UNCHANGED <<clientStates, nextClientIndex>>
    BY <1>1, <1>3 DEF getOrCreateClient
  <2>2. Pending' = Pending
    BY <1>1, <2>1 DEF Pending
  <2>3. QED
    BY <1>1, <2>1, <2>2, UniqueKept
<1>4. CASE a \notin DOMAIN clientStates
  <2> DEFINE new == [index |-> nextClientIndex, entityId |-> 2 + nextClientIndex,
                     nextExpectedOrderingIndex |-> 0]
  <2>1. /\ DOMAIN clientStates' = DOMAIN clientStates \cup {a}
        /\ clientStates'[a] = new
        /\ \A b \in DOMAIN clientStates : clientStates'[b] = clientStates[b]
        /\ nextClientIndex' = (nextClientIndex + 1) % IndexSpace
    BY <1>1, <1>4, NewSession
  <2>2. new.index = nextClientIndex
    OBVIOUS
  <2> HIDE DEF new
  <2>3. a \in Pending /\ Pending' = Pending \ {a}
    BY <1>1, <1>4, <2>1 DEF Pending
  <2>4. /\ IsFiniteSet(Pending)
        /\ nextClientIndex + Cardinality(Pending) <= connects
        /\ \A b \in DOMAIN clientStates : clientStates[b].index < nextClientIndex
    BY <2>3 DEF Counted
  <2>5. /\ IsFiniteSet(Pending') /\ Cardinality(Pending') = Cardinality(Pending) - 1
        /\ Cardinality(Pending) \in Nat /\ Cardinality(Pending') \in Nat
    BY <2>3, <2>4, FS_RemoveElement, FS_CardinalityType
  <2>6. \A b, d \in DOMAIN clientStates' : b # d => clientStates'[b].index # clientStates'[d].index
    <3>1. \A b \in DOMAIN clientStates : clientStates'[b].index < nextClientIndex
      BY <2>1, <2>4
    <3>2. \A b \in DOMAIN clientStates : clientStates'[b].index # nextClientIndex
      BY <1>2, <3>1
    <3>3. \A b, d \in DOMAIN clientStates : b # d => clientStates'[b].index # clientStates'[d].index
      BY <2>1 DEF IdentifiersUnique
    <3>4. QED
      BY <2>1, <2>2, <3>2, <3>3
  <2>7. IdentifiersUnique'
    BY <2>6, EntitiesFollow
  <2>8. CASE nextClientIndex + 1 < IndexSpace
    <3>1. nextClientIndex' = nextClientIndex + 1
      BY <1>2, <2>1, <2>8, NextIndex
    <3>2. nextClientIndex' + Cardinality(Pending') <= connects'
      BY <1>1, <1>2, <2>4, <2>5, <3>1
    <3>3. \A b \in DOMAIN clientStates : clientStates[b].index \in Int
      BY <1>2, StatesFacts, BoundAssumption DEF Session
    <3>4. \A b \in DOMAIN clientStates' : clientStates'[b].index < nextClientIndex'
      BY <1>2, <2>1, <2>4, <2>2, <3>1, <3>3
    <3>5. QED
      BY <2>5, <2>7, <3>2, <3>4 DEF Counted
  <2>9. CASE nextClientIndex + 1 = IndexSpace
    <3>1. connects = MaxConnects /\ Cardinality(Pending') = 0
      BY <1>2, <2>4, <2>5, <2>9, BoundAssumption DEF IndexSpaceFits
    <3>2. Pending' = {}
      BY <2>5, <3>1, FS_EmptySet
    <3>3. QED
      BY <1>1, <2>7, <3>1, <3>2 DEF Counted
  <2>10. QED
    BY <1>2, <2>8, <2>9
<1>5. QED
  BY <1>3, <1>4

LEMMA UniqueFrame ==
  ASSUME IInv, IInv', Counted, IdentifiersUnique,
         NEW a \in Addresses, NEW f, processFrameContent(a, f)
  PROVE  Counted' /\ IdentifiersUnique'
<1>1. /\ f \in network[a] /\ f # Request /\ a \in DOMAIN clientStates
      /\ IF f.kind = "bye" THEN removeClient(a) ELSE Advance(a)
      /\ UNCHANGED <<nextClientIndex, clients, network, connects>>
  BY DEF processFrameContent
<1>2. Request \notin network[a]
  BY <1>1 DEF IInv, AddressInv, Asking
<1>3. clientStates \in [DOMAIN clientStates -> Session]
  BY StatesFacts DEF IInv
<1>4. /\ DOMAIN clientStates' \subseteq DOMAIN clientStates
      /\ DOMAIN clientStates \ {a} \subseteq DOMAIN clientStates'
      /\ \A b \in DOMAIN clientStates' : clientStates'[b].index = clientStates[b].index
  <2>1. CASE f.kind = "bye"
    BY <1>1, <1>3, <2>1 DEF removeClient
  <2>2. CASE f.kind # "bye"
    <3>1. clientStates' = [clientStates EXCEPT ![a] =
            [clientStates[a] EXCEPT !.nextExpectedOrderingIndex =
               clientStates[a].nextExpectedOrderingIndex + 1]]
      BY <1>1, <2>2 DEF Advance
    <3>2. [clientStates[a] EXCEPT !.nextExpectedOrderingIndex =
             clientStates[a].nextExpectedOrderingIndex + 1].index = clientStates[a].index
      BY <1>1, <1>3 DEF Session
    <3>3. QED
      BY <1>1, <1>3, <3>1, <3>2
  <2>3. QED
    BY <2>1, <2>2
<1>5. Pending' \subseteq Pending
  BY <1>1, <1>2, <1>4 DEF Pending
<1>6. QED
  BY <1>1, <1>4, <1>5, UniqueKept

LEMMA UniqueStart ==
  ASSUME IInv, IInv', Counted, IdentifiersUnique, NEW a \in Addresses, ClientStart(a)
  PROVE  Counted' /\ IdentifiersUnique'
<1>1. /\ connects < MaxConnects /\ connects' = connects + 1
      /\ network' = [network EXCEPT ![a] = {Request}]
      /\ UNCHANGED <<clientStates, nextClientIndex>>
  BY DEF ClientStart
<1>2. /\ connects \in Nat /\ nextClientIndex \in Nat
      /\ network \in [Addresses -> SUBSET (AnyFrame \cup {Request})]
  BY BoundAssumption DEF IInv, Types
<1>3. IdentifiersUnique'
  BY <1>1 DEF IdentifiersUnique
<1>4. /\ IsFiniteSet(Pending)
      /\ nextClientIndex + Cardinality(Pending) <= connects
      /\ \A b \in DOMAIN clientStates : clientStates[b].index < nextClientIndex
  BY <1>1, <1>2, BoundAssumption DEF Counted
<1>5. Pending' \subseteq Pending \cup {a}
  BY <1>1, <1>2 DEF Pending
<1>6. /\ IsFiniteSet(Pending \cup {a}) /\ Cardinality(Pending) \in Nat
      /\ Cardinality(Pending \cup {a}) <= Cardinality(Pending) + 1
  BY <1>4, FS_AddElement, FS_CardinalityType
<1>7. /\ IsFiniteSet(Pending') /\ Cardinality(Pending') <= Cardinality(Pending \cup {a})
      /\ Cardinality(Pending') \in Nat /\ Cardinality(Pending \cup {a}) \in Nat
  BY <1>5, <1>6, FS_Subset, FS_CardinalityType
<1>8. nextClientIndex' + Cardinality(Pending') <= connects'
  BY <1>1, <1>2, <1>4, <1>6, <1>7
<1>9. QED
  BY <1>1, <1>3, <1>4, <1>7, <1>8 DEF Counted

LEMMA UniqueClient ==
  ASSUME IInv, IInv', Counted, IdentifiersUnique, NEW a \in Addresses,
         ClientConnected(a) \/ ClientSend(a) \/ ClientClose(a) \/ ClientGone(a) \/ ClientCrash(a)
  PROVE  Counted' /\ IdentifiersUnique'
<1>1. network \in [Addresses -> SUBSET (AnyFrame \cup {Request})]
  BY DEF IInv, Types
<1>2. UNCHANGED <<clientStates, nextClientIndex, connects>>
  BY DEF ClientConnected, ClientSend, ClientClose, ClientGone, ClientCrash
<1>3. Frame(clients[a], TRUE) # Request /\ Frame(clients[a], FALSE) # Request
  BY DEF Frame, Request
<1>4. \A b \in Addresses : Request \in network'[b] => Request \in network[b]
  <2>1. CASE ClientConnected(a)
    BY <1>1, <2>1 DEF ClientConnected
  <2>2. CASE ClientSend(a)
    BY <1>1, <1>3, <2>2 DEF ClientSend
  <2>3. CASE ClientClose(a)
    BY <1>1, <1>3, <2>3 DEF ClientClose
  <2>4. CASE ClientGone(a) \/ ClientCrash(a)
    BY <2>4 DEF ClientGone, ClientCrash
  <2>5. QED
    BY <2>1, <2>2, <2>3, <2>4
<1>5. Pending' \subseteq Pending
  BY <1>2, <1>4 DEF Pending
<1>6. QED
  BY <1>2, <1>5, UniqueKept

-----------------------------------------------------------------------------
(* The theorems *)

LEMMA IInvStep == IInv /\ [Next]_vars => IInv'
<1> SUFFICES ASSUME IInv, [Next]_vars PROVE IInv'
  OBVIOUS
<1>1. CASE UNCHANGED vars
  <2>1. UNCHANGED <<clientStates, nextClientIndex, clients, network, replied, handled, connects, crashes>>
    BY <1>1 DEF vars
  <2>2. QED
    BY <2>1 DEF IInv, Types, AddressInv, Asking, SentByClient, OfClient, EntityOfIndex
<1>2. ASSUME NEW a \in Addresses, decodeOpenConnectionRequestTwo(a) PROVE IInv'
  BY <1>2, RequestStep
<1>3. ASSUME NEW a \in Addresses, NEW f \in network[a], processFrameContent(a, f) PROVE IInv'
  BY <1>3, FrameStep
<1>4. ASSUME NEW a \in Addresses, ClientStart(a) PROVE IInv'
  BY <1>4, StartStep
<1>5. ASSUME NEW a \in Addresses,
             ClientConnected(a) \/ ClientSend(a) \/ ClientClose(a) \/ ClientGone(a) \/ ClientCrash(a)
      PROVE  IInv'
  BY <1>5, ClientStep
<1>6. QED
  BY <1>1, <1>2, <1>3, <1>4, <1>5 DEF Next

LEMMA UniqueStep == IInv /\ IInv' /\ Unique /\ [Next]_vars => Unique'
<1> SUFFICES ASSUME IInv, IInv', Counted, IdentifiersUnique, IndexSpaceFits, [Next]_vars
             PROVE  Counted' /\ IdentifiersUnique'
  BY DEF Unique, IndexSpaceFits
<1>1. CASE UNCHANGED vars
  <2>1. UNCHANGED <<clientStates, nextClientIndex, network, connects>>
    BY <1>1 DEF vars
  <2>2. QED
    BY <2>1 DEF Counted, IdentifiersUnique, Pending
<1>2. ASSUME NEW a \in Addresses, decodeOpenConnectionRequestTwo(a)
      PROVE  Counted' /\ IdentifiersUnique'
  BY <1>2, UniqueRequest
<1>3. ASSUME NEW a \in Addresses, NEW f \in network[a], processFrameContent(a, f)
      PROVE  Counted' /\ IdentifiersUnique'
  BY <1>3, UniqueFrame
<1>4. ASSUME NEW a \in Addresses, ClientStart(a) PROVE Counted' /\ IdentifiersUnique'
  BY <1>4, UniqueStart
<1>5. ASSUME NEW a \in Addresses,
             ClientConnected(a) \/ ClientSend(a) \/ ClientClose(a) \/ ClientGone(a) \/ ClientCrash(a)
      PROVE  Counted' /\ IdentifiersUnique'
  BY <1>5, UniqueClient
<1>6. QED
  BY <1>1, <1>2, <1>3, <1>4, <1>5 DEF Next

LEMMA SpecInv == Spec => [](IInv /\ Unique)
<1>1. Init => IInv /\ Unique
  BY InitInv, InitUnique
<1>2. (IInv /\ Unique) /\ [Next]_vars => (IInv /\ Unique)'
  BY IInvStep, UniqueStep
<1>3. QED
  BY <1>1, <1>2, PTL DEF Spec

\* The sessions, the client behind every address and the counters keep their types:
\* getOrCreateClient() and removeClient() (Clients.cpp) leave one session per address.
THEOREM TypeCorrect == Spec => []TypeOK
<1>1. IInv => TypeOK
  <2> SUFFICES ASSUME IInv PROVE TypeOK
    OBVIOUS
  <2>1. DOMAIN clientStates \subseteq Addresses /\ \A a \in DOMAIN clientStates : clientStates[a] \in Session
    BY StatesFacts DEF IInv
  <2>2. QED
    BY <2>1 DEF IInv, Types, TypeOK, Session, Client
<1>2. QED
  BY <1>1, SpecInv, PTL

\* As long as nextClientIndex (Clients.cpp) has a value for every connection, no two
\* sessions share a client index or an entity id, whatever order they come and go in.
THEOREM DifferentIdentifiers ==
  ASSUME IndexSpaceFits
  PROVE  Spec => []IdentifiersUnique
<1>1. Unique => IdentifiersUnique
  BY DEF Unique
<1>2. QED
  BY <1>1, SpecInv, PTL

\* A session handles what its own client sent, from the first frame on and without a
\* gap, unless a client vanished from its address without a word: deliverOrdered() of
\* one address never sees the frames or the counters of another.
THEOREM OwnFrames == Spec => []OwnFramesInOrder
<1>1. IInv => OwnFramesInOrder
  <2> SUFFICES ASSUME IInv, NEW a \in DOMAIN clientStates, ~clients[a].crashed, NEW i \in DOMAIN handled[a]
               PROVE  handled[a][i] = <<clients[a].run, i - 1>>
    BY DEF OwnFramesInOrder
  <2>1. a \in Addresses
    BY StatesFacts DEF IInv
  <2>2. handled[a] \in Seq(Handled) /\ OfClient(a)
    BY <2>1 DEF IInv, Types, AddressInv
  <2>3. QED
    BY <2>2 DEF OfClient
<1>2. QED
  BY <1>1, SpecInv, PTL
=============================================================================
