------------------------------ MODULE Sessions ------------------------------
(***************************************************************************)
(* The registry of sessions: clientStates and nextClientIndex of           *)
(* LBNet/Server/Clients.cpp, over the life of the clients behind the       *)
(* addresses: a session is created by OpenConnectionRequest2 (0x07), used  *)
(* by every frame from its address and removed by a disconnection          *)
(* notification (0x15).  There is no timeout.                              *)
(*                                                                         *)
(* Of a session's state, the model keeps its identifiers and the next      *)
(* ordering index.  A frame that comes early waits: whether in the buffer  *)
(* of deliverOrdered() or on the way, see OrderedDelivery.                 *)
(***************************************************************************)
EXTENDS Integers, Sequences, FiniteSets

CONSTANTS Addresses,      \* "ip:port" of the clients
          IndexSpace,     \* values of nextClientIndex, 2^16
          MaxConnects,    \* bound: connections, over all addresses
          MaxSent,        \* bound: frames a client sends before it closes
          MaxCrashes      \* bound: clients that vanish without a notification

ASSUME BoundAssumption == /\ IndexSpace \in Nat \ {0} /\ MaxConnects \in Nat
                          /\ MaxSent \in Nat /\ MaxCrashes \in Nat

VARIABLES clientStates,   \* address -> session
          nextClientIndex,
          clients,        \* address -> the client there and what it has sent
          network,        \* address -> datagrams that may come from there
          replied,        \* addresses with a reply to 0x07 on the way
          handled,        \* history: frames its last session handled
          connects, crashes

vars == <<clientStates, nextClientIndex, clients, network, replied, handled,
          connects, crashes>>

Phases == {"off", "asking", "connected", "closing"}
Request == [kind |-> "request"]
Frame(client, closes) ==
  [kind |-> IF closes THEN "bye" ELSE "data", run |-> client.run, orderingIndex |-> client.sent]

TypeOK ==
  /\ DOMAIN clientStates \subseteq Addresses
  /\ \A a \in DOMAIN clientStates :
       clientStates[a] \in [index : 0..(IndexSpace - 1), entityId : 2..(IndexSpace + 1),
                            nextExpectedOrderingIndex : 0..(MaxSent + 1)]
  /\ nextClientIndex \in 0..(IndexSpace - 1)
  /\ clients \in [Addresses -> [phase : Phases, run : 0..MaxConnects,
                                sent : 0..(MaxSent + 1), crashed : BOOLEAN]]
  /\ replied \subseteq Addresses
  /\ connects \in 0..MaxConnects /\ crashes \in 0..MaxCrashes

Init ==
  /\ clientStates = <<>>
  /\ nextClientIndex = 0
  /\ clients = [a \in Addresses |-> [phase |-> "off", run |-> 0, sent |-> 0,
                                     crashed |-> FALSE]]
  /\ network = [a \in Addresses |-> {}]
  /\ replied = {}
  /\ handled = [a \in Addresses |-> <<>>]
  /\ connects = 0 /\ crashes = 0

-----------------------------------------------------------------------------
(* The server *)

\* Mutant: the number of sessions serves as the next index.
IndexFromCount(a) ==
  IF a \in DOMAIN clientStates THEN UNCHANGED <<clientStates, nextClientIndex, handled>>
  ELSE LET count == Cardinality(DOMAIN clientStates)
           state == [index |-> count, entityId |-> 2 + count,
                     nextExpectedOrderingIndex |-> 0]
       IN  /\ clientStates' = [b \in DOMAIN clientStates \cup {a} |->
                                 IF b = a THEN state ELSE clientStates[b]]
           /\ handled' = [handled EXCEPT ![a] = <<>>]
           /\ UNCHANGED nextClientIndex

\* Mutant: the index has a value more than its type.
IndexUnwrapped(a) ==
  IF a \in DOMAIN clientStates THEN UNCHANGED <<clientStates, nextClientIndex, handled>>
  ELSE LET state == [index |-> nextClientIndex, entityId |-> 2 + nextClientIndex,
                     nextExpectedOrderingIndex |-> 0]
       IN  /\ clientStates' = [b \in DOMAIN clientStates \cup {a} |->
                                 IF b = a THEN state ELSE clientStates[b]]
           /\ nextClientIndex' = nextClientIndex + 1
           /\ handled' = [handled EXCEPT ![a] = <<>>]

\* An existing session is returned as it is.
getOrCreateClient(a) ==
  IF a \in DOMAIN clientStates THEN UNCHANGED <<clientStates, nextClientIndex, handled>>
  ELSE LET state == [index |-> nextClientIndex, entityId |-> 2 + nextClientIndex,
                     nextExpectedOrderingIndex |-> 0]
       IN  /\ clientStates' = [b \in DOMAIN clientStates \cup {a} |->
                                 IF b = a THEN state ELSE clientStates[b]]
           /\ nextClientIndex' = (nextClientIndex + 1) % IndexSpace
           /\ handled' = [handled EXCEPT ![a] = <<>>]

decodeOpenConnectionRequestTwo(a) ==
  /\ Request \in network[a]
  /\ getOrCreateClient(a)
  /\ replied' = replied \cup {a}
  /\ UNCHANGED <<clients, network, connects, crashes>>

\* Mutant: the session is only marked, its counters stay.
RemovesNothing(a) == UNCHANGED clientStates

removeClient(a) ==
  clientStates' = [b \in DOMAIN clientStates \ {a} |-> clientStates[b]]

\* Mutant: all sessions share one expected index.
SharedIndex(a) ==
  clientStates' = [b \in DOMAIN clientStates |->
                     [clientStates[b] EXCEPT !.nextExpectedOrderingIndex = @ + 1]]

\* deliverOrdered() returned from an ordinary frame.
Advance(a) ==
  clientStates' = [clientStates EXCEPT
     ![a] = [@ EXCEPT !.nextExpectedOrderingIndex = clientStates[a].nextExpectedOrderingIndex + 1]]

\* A frame for an address without a session is ignored, as is one below the
\* expected index.
processFrameContent(a, f) ==
  /\ f \in network[a] \ {Request}
  /\ a \in DOMAIN clientStates
  /\ f.orderingIndex = clientStates[a].nextExpectedOrderingIndex
  /\ IF f.kind = "bye" THEN removeClient(a) ELSE Advance(a)
  /\ handled' = [handled EXCEPT ![a] = Append(@, <<f.run, f.orderingIndex>>)]
  /\ UNCHANGED <<nextClientIndex, clients, network, replied, connects, crashes>>

-----------------------------------------------------------------------------
(* The clients (external).  Nothing a former client of the address sent is  *)
(* still under way when the next one starts.                               *)

ClientStart(a) ==
  /\ clients[a].phase = "off" /\ connects < MaxConnects
  /\ clients' = [clients EXCEPT ![a] = [phase |-> "asking", run |-> @.run + 1, sent |-> 0,
                                        crashed |-> @.crashed]]
  /\ network' = [network EXCEPT ![a] = {Request}]
  /\ replied' = replied \ {a}
  /\ connects' = connects + 1
  /\ UNCHANGED <<clientStates, nextClientIndex, handled, crashes>>

\* Its requests are repeated until the reply comes, and none is left then.
ClientConnected(a) ==
  /\ clients[a].phase = "asking" /\ a \in replied
  /\ clients' = [clients EXCEPT ![a] = [@ EXCEPT !.phase = "connected"]]
  /\ network' = [network EXCEPT ![a] = {}]
  /\ UNCHANGED <<clientStates, nextClientIndex, replied, handled, connects, crashes>>

ClientSend(a) ==
  /\ clients[a].phase = "connected" /\ clients[a].sent < MaxSent
  /\ network' = [network EXCEPT ![a] = @ \cup {Frame(clients[a], FALSE)}]
  /\ clients' = [clients EXCEPT ![a] = [@ EXCEPT !.sent = clients[a].sent + 1]]
  /\ UNCHANGED <<clientStates, nextClientIndex, replied, handled, connects, crashes>>

ClientClose(a) ==
  /\ clients[a].phase = "connected"
  /\ network' = [network EXCEPT ![a] = @ \cup {Frame(clients[a], TRUE)}]
  /\ clients' = [clients EXCEPT ![a] = [phase |-> "closing", run |-> @.run, sent |-> @.sent + 1,
                                        crashed |-> @.crashed]]
  /\ UNCHANGED <<clientStates, nextClientIndex, replied, handled, connects, crashes>>

\* Its notification is repeated until it is through.
ClientGone(a) ==
  /\ clients[a].phase = "closing" /\ handled[a] # <<>>
  /\ handled[a][Len(handled[a])] = <<clients[a].run, clients[a].sent - 1>>
  /\ clients' = [clients EXCEPT ![a] = [@ EXCEPT !.phase = "off"]]
  /\ UNCHANGED <<clientStates, nextClientIndex, network, replied, handled, connects, crashes>>

ClientCrash(a) ==
  /\ clients[a].phase # "off" /\ crashes < MaxCrashes
  /\ clients' = [clients EXCEPT ![a] = [phase |-> "off", run |-> @.run, sent |-> @.sent,
                                        crashed |-> TRUE]]
  /\ crashes' = crashes + 1
  /\ UNCHANGED <<clientStates, nextClientIndex, network, replied, handled, connects>>

-----------------------------------------------------------------------------
AnyFrame == [kind : {"data", "bye"}, run : 1..MaxConnects, orderingIndex : 0..MaxSent]

Next == \E a \in Addresses :
          \/ decodeOpenConnectionRequestTwo(a)
          \/ \E f \in network[a] : processFrameContent(a, f)
          \/ ClientStart(a) \/ ClientConnected(a) \/ ClientSend(a)
          \/ ClientClose(a) \/ ClientGone(a) \/ ClientCrash(a)

Spec == Init /\ [][Next]_vars

\* What a client repeats until it is answered gets through.
Fairness == \A a \in Addresses :
              /\ WF_vars(decodeOpenConnectionRequestTwo(a))
              /\ WF_vars(ClientConnected(a))
              /\ \A f \in AnyFrame : WF_vars(processFrameContent(a, f))
FairSpec == Spec /\ Fairness

-----------------------------------------------------------------------------
(* Properties *)

\* No two sessions share the index put into the handshake or the entity id
\* other players see, also after sessions have come and gone.  The 16-bit
\* index gives this for as many connections as it has values.
IdentifiersUnique ==
  \A a, b \in DOMAIN clientStates :
    a # b => /\ clientStates[a].index # clientStates[b].index
             /\ clientStates[a].entityId # clientStates[b].entityId

\* A session handles the frames of the client it was made for, from the first
\* one on, whatever the other clients do and whoever used the address before
\* ("its own isolated copy of everything", Clients.h:26-27), as long as nobody
\* there vanished without a word.
OwnFramesInOrder ==
  \A a \in DOMAIN clientStates :
    ~clients[a].crashed =>
      \A i \in DOMAIN handled[a] : handled[a][i] = <<clients[a].run, i - 1>>

HandledBy(a, run, n) ==
  \E i \in DOMAIN handled[a] : handled[a][i] = <<run, n - 1>>

\* What a client has sent is handled while it is there, if every client at its
\* address before it closed its connection.
ServedAfterClose ==
  \A a \in Addresses : \A run \in 1..MaxConnects : \A n \in 1..MaxSent :
    (clients[a].run = run /\ clients[a].sent >= n)
      ~> (HandledBy(a, run, n) \/ clients[a].crashed)

\* The same for every client: "Each client now gets its own isolated copy of
\* everything a RakNet connection needs to track" (Clients.h:26-27).
EveryClientServed ==
  \A a \in Addresses : \A run \in 1..MaxConnects : \A n \in 1..MaxSent :
    (clients[a].run = run /\ clients[a].sent >= n)
      ~> (HandledBy(a, run, n) \/ clients[a].run # run \/ clients[a].phase = "off")
=============================================================================
