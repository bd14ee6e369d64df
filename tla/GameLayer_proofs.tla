--------------------------- MODULE GameLayer_proofs ---------------------------
(***************************************************************************)
(* Proofs about the packets of one client.  GameSession: for every kind of *)
(* login and any number of repeated requests, both ends change their       *)
(* codecs at the same place of the stream and the client never sees the    *)
(* join sequence go back.  Chat: for every limit and window, what the      *)
(* flood guard lets pass and whom it silences.                             *)
(***************************************************************************)
EXTENDS GameSession, Chat, FiniteSetTheorems, SequenceTheorems, TLAPS

-----------------------------------------------------------------------------
(* The join sequence.  The inductive invariant of GameSession. *)

Codecs == [compressionEnabled : BOOLEAN, encryptionEnabled : BOOLEAN,
           sendPacketCounter : Nat, recvPacketCounter : Nat]
Batches(kinds) ==
  [packets : Seq(kinds), compressed : BOOLEAN, encrypted : BOOLEAN, counter : Nat]
Session ==
  [codecs : Codecs, pendingBatch : Seq(ToClient), flushed : Seq(Batches(ToClient)),
   loggedIn : BOOLEAN, startGameSent : BOOLEAN, spawnSequenceSent : BOOLEAN,
   spawnPhase2Sent : BOOLEAN, receivedAuthInput : BOOLEAN, spawned : BOOLEAN,
   dropped : Nat]
Peer == [codecs : Codecs, identity : Identities, connected : BOOLEAN,
         said : [ToServer -> 0..(Repeats + 1)], seen : Seq(ToClient)]

Typed ==
  /\ server \in Session /\ server.flushed = <<>>
  /\ client \in Peer
  /\ upstream \in Seq(Batches(ToServer))
  /\ downstream \in Seq(Batches(ToClient))
  /\ IsCodecs(server.codecs) /\ IsCodecs(client.codecs)

(* Up to the handshake the two sides take turns: each stage says all there is *)
(* on its way.                                                              *)

ServerCodecs(compressed, encrypted) ==
  /\ server.codecs.compressionEnabled = compressed
  /\ server.codecs.encryptionEnabled = encrypted
ClientCodecs(compressed, encrypted) ==
  /\ client.codecs.compressionEnabled = compressed
  /\ client.codecs.encryptionEnabled = encrypted

SaidOnly(S) == \A p \in ToServer : client.said[p] = IF p \in S THEN 1 ELSE 0

\* The client is about to say p, or has just said it.
Asks(before, p, compressed, encrypted) ==
  \/ SaidOnly(before) /\ upstream = <<>>
  \/ SaidOnly(before \cup {p}) /\ upstream = <<Batch(<<p>>, compressed, encrypted, 0)>>

HasSeen(packets, coming) == client.seen = packets /\ downstream = coming

Fresh == server.pendingBatch = <<>> /\ ~server.startGameSent /\ ~server.spawnSequenceSent
NotCounted == server.codecs.sendPacketCounter = 0 /\ server.codecs.recvPacketCounter = 0

Greeting ==
  /\ ServerCodecs(FALSE, FALSE) /\ ClientCodecs(FALSE, FALSE) /\ Fresh
  /\ HasSeen(<<>>, <<>>)
  /\ Asks({}, "RequestNetworkSettings", FALSE, FALSE)

Negotiated ==
  /\ ServerCodecs(TRUE, FALSE) /\ ClientCodecs(FALSE, FALSE) /\ Fresh
  /\ HasSeen(<<>>, <<Batch(<<"NetworkSettings">>, FALSE, FALSE, 0)>>)
  /\ SaidOnly({"RequestNetworkSettings"}) /\ upstream = <<>>

LoggingIn ==
  /\ ServerCodecs(TRUE, FALSE) /\ ClientCodecs(TRUE, FALSE) /\ Fresh
  /\ HasSeen(<<"NetworkSettings">>, <<>>)
  /\ Asks({"RequestNetworkSettings"}, "Login", TRUE, FALSE)

Shaking ==
  /\ ServerCodecs(TRUE, TRUE) /\ ClientCodecs(TRUE, FALSE) /\ Fresh /\ NotCounted
  /\ HasSeen(<<"NetworkSettings">>,
             <<Batch(<<"ServerToClientHandshake">>, TRUE, FALSE, 0)>>)
  /\ SaidOnly({"RequestNetworkSettings", "Login"}) /\ upstream = <<>>

Shaken ==
  /\ ServerCodecs(TRUE, TRUE) /\ ClientCodecs(TRUE, TRUE) /\ Fresh /\ NotCounted
  /\ client.codecs.sendPacketCounter = Len(upstream)
  /\ client.codecs.recvPacketCounter = 0
  /\ HasSeen(<<"NetworkSettings", "ServerToClientHandshake">>, <<>>)
  /\ Asks({"RequestNetworkSettings", "Login"}, "ClientToServerHandshake", TRUE, TRUE)

(* From then on batches of both directions cross.                           *)

Greetings == {"RequestNetworkSettings", "Login", "ClientToServerHandshake"}
Switches  == {"NetworkSettings", "ServerToClientHandshake"}

GreetingsSaid ==
  \A p \in Greetings :
    client.said[p] = 1 \/ (p = "ClientToServerHandshake" /\ ~Seen("ServerToClientHandshake"))

\* The batches on their way, as the other end will expect them.
UpstreamAgrees ==
  \A i \in DOMAIN upstream : \E p \in ToServer \ Greetings :
    upstream[i] = Batch(<<p>>, TRUE, server.codecs.encryptionEnabled,
                        server.codecs.recvPacketCounter + (i - 1))
DownstreamAgrees ==
  \A i \in DOMAIN downstream :
    /\ Range(downstream[i].packets) \cap Switches = {}
    /\ downstream[i] = Batch(downstream[i].packets, TRUE, server.codecs.encryptionEnabled,
                             client.codecs.recvPacketCounter + (i - 1))
CountersAgree ==
  server.codecs.encryptionEnabled =>
    /\ client.codecs.sendPacketCounter = server.codecs.recvPacketCounter + Len(upstream)
    /\ server.codecs.sendPacketCounter = client.codecs.recvPacketCounter + Len(downstream)

\* JoinOrder for two packets, inside a sequence and between two sequences.
Follows(x, y) ==
  {x, y} \subseteq DOMAIN Rank =>
    Rank[x] < Rank[y] \/ (x = y /\ x = "ResourcePacksStack")
InOrder(s)    == \A j \in DOMAIN s : \A i \in 1..(j - 1) : Follows(s[i], s[j])
Before(s, t)  == \A x \in Range(s), y \in Range(t) : Follows(x, y)

\* What the client has seen and what it will see are in order.
SentInOrder ==
  /\ InOrder(client.seen)
  /\ \A i \in DOMAIN downstream :
       /\ InOrder(downstream[i].packets)
       /\ Before(client.seen, downstream[i].packets)
  /\ \A i \in DOMAIN downstream : \A j \in 1..(i - 1) :
       Before(downstream[j].packets, downstream[i].packets)

\* The server's flags bound what was sent.
AtMost(rank, s) == \A p \in Range(s) : p \in DOMAIN Rank => Rank[p] <= rank
SentAtMost(rank) ==
  /\ AtMost(rank, client.seen)
  /\ \A i \in DOMAIN downstream : AtMost(rank, downstream[i].packets)

FlagsBound ==
  /\ ~server.startGameSent => SentAtMost(5)
  /\ ~server.spawnSequenceSent => SentAtMost(7)
  /\ server.spawnSequenceSent => server.startGameSent
  /\ (\E i \in DOMAIN upstream : upstream[i].packets = <<"RequestChunkRadius">>)
       => server.startGameSent

Streaming ==
  /\ ServerCodecs(TRUE, server.codecs.encryptionEnabled)
  /\ ClientCodecs(TRUE, server.codecs.encryptionEnabled)
  /\ Range(server.pendingBatch) \subseteq {"ChunkRadiusUpdated"}
  /\ GreetingsSaid
  /\ UpstreamAgrees /\ DownstreamAgrees /\ CountersAgree
  /\ SentInOrder /\ FlagsBound

Stage == Greeting \/ Negotiated \/ LoggingIn \/ Shaking \/ Shaken \/ Streaming

IInv == Typed /\ CodecsAgree /\ Stage

\* The batches of a channel have their types.
LEMMA BatchFacts ==
  ASSUME NEW kinds, NEW s \in Seq(Batches(kinds)), NEW i \in DOMAIN s
  PROVE  /\ s[i] \in Batches(kinds) /\ s[i].packets \in Seq(kinds)
         /\ s[i].compressed \in BOOLEAN /\ s[i].encrypted \in BOOLEAN /\ s[i].counter \in Nat
<1>1. s[i] \in Batches(kinds)
  OBVIOUS
<1>2. QED
  BY <1>1 DEF Batches

\* The invariant is strong enough.
LEMMA InvImplies == IInv => TypeOK /\ CodecsAgree /\ JoinOrder
<1> SUFFICES ASSUME IInv PROVE TypeOK /\ CodecsAgree /\ JoinOrder
  OBVIOUS
<1>1. TypeOK
  <2>1. \A i \in DOMAIN upstream : upstream[i].packets \in Seq(ToServer)
    BY BatchFacts DEF IInv, Typed
  <2>2. \A i \in DOMAIN downstream : downstream[i].packets \in Seq(ToClient)
    BY BatchFacts DEF IInv, Typed
  <2>3. /\ server.pendingBatch \in Seq(ToClient) /\ server.flushed = <<>>
        /\ server.dropped \in Nat
        /\ \A flag \in {"loggedIn", "startGameSent", "spawnSequenceSent", "spawnPhase2Sent",
                        "receivedAuthInput", "spawned"} : server[flag] \in BOOLEAN
    BY DEF IInv, Typed, Session
  <2>4. /\ client.identity \in Identities /\ client.said \in [ToServer -> 0..(Repeats + 1)]
        /\ client.seen \in Seq(ToClient) /\ client.connected \in BOOLEAN
    BY DEF IInv, Typed, Peer
  <2>5. QED
    BY <2>1, <2>2, <2>3, <2>4 DEF IInv, Typed, TypeOK
<1>2. InOrder(client.seen)
  <2>1. CASE Streaming
    BY <2>1 DEF Streaming, SentInOrder
  <2>2. CASE ~Streaming
    <3>1. \/ client.seen = <<>> \/ client.seen = <<"NetworkSettings">>
          \/ client.seen = <<"NetworkSettings", "ServerToClientHandshake">>
      BY <2>2 DEF IInv, Stage, Greeting, Negotiated, LoggingIn, Shaking, Shaken, HasSeen
    <3>2. Follows("NetworkSettings", "ServerToClientHandshake")
      BY DEF Follows, Rank, ToClient
    <3>3. QED
      BY <3>1, <3>2 DEF InOrder
  <2>3. QED
    BY <2>1, <2>2
<1>3. JoinOrder
  BY <1>2 DEF JoinOrder, InOrder, Follows
<1>4. QED
  BY <1>1, <1>3 DEF IInv

\* A session starts in the first stage.
LEMMA InvInit == Init => IInv
<1> SUFFICES ASSUME Init PROVE IInv
  OBVIOUS
<1>1. PICK identity \in Identities :
        client = [codecs |-> PlainCodecs, identity |-> identity, connected |-> TRUE,
                  said |-> [p \in ToServer |-> 0], seen |-> <<>>]
  BY DEF Init
<1>2. PlainCodecs \in Codecs /\ IsCodecs(PlainCodecs)
  BY DEF PlainCodecs, Codecs, IsCodecs
<1>3. server \in Session /\ server.flushed = <<>> /\ server.codecs = PlainCodecs
  BY <1>2 DEF Init, Session
<1>4. client \in Peer /\ client.codecs = PlainCodecs
  BY <1>1, <1>2, IdentityAssumption DEF Peer
<1>5. Typed
  BY <1>2, <1>3, <1>4 DEF Typed, Init
<1>6. SaidOnly({})
  BY <1>1 DEF SaidOnly
<1>7. Greeting
  BY <1>1, <1>3, <1>4, <1>6
     DEF Init, Greeting, ServerCodecs, ClientCodecs, PlainCodecs, Fresh, HasSeen, Asks
<1>8. CodecsAgree
  BY <1>1 DEF Init, CodecsAgree
<1>9. QED
  BY <1>5, <1>7, <1>8 DEF IInv, Stage

-----------------------------------------------------------------------------
(* Ranks and order. *)

\* The ranks, one by one.
LEMMA RankFacts ==
  /\ DOMAIN Rank = ToClient \ {"TickSync", "ChunkRadiusUpdated"}
  /\ Rank["NetworkSettings"] = 1 /\ Rank["ServerToClientHandshake"] = 2
  /\ Rank["LoginSuccess"] = 3 /\ Rank["ResourcePacksInfo"] = 4
  /\ Rank["ResourcePacksStack"] = 5 /\ Rank["StartGame"] = 6
  /\ Rank["ItemRegistry"] = 7 /\ Rank["PlayerSpawn"] = 8
  /\ Rank["CreativeContent"] = 9
BY DEF Rank, ToClient

\* What a packet more adds to the packets of a sequence.
LEMMA AppendRange ==
  ASSUME NEW S, NEW s \in Seq(S), NEW p \in S
  PROVE  Append(s, p) \in Seq(S) /\ Range(Append(s, p)) = Range(s) \cup {p}
<1>1. /\ Append(s, p) \in Seq(S) /\ DOMAIN s = 1..Len(s) /\ Len(s) \in Nat
      /\ DOMAIN Append(s, p) = 1..(Len(s) + 1)
      /\ Append(s, p)[Len(s) + 1] = p
      /\ \A i \in 1..Len(s) : Append(s, p)[i] = s[i]
  OBVIOUS
<1>2. QED
  BY <1>1 DEF Range

\* A sequence stays in order when what it gets may follow all of it.
LEMMA AppendInOrder ==
  ASSUME NEW S, NEW s \in Seq(S), NEW p \in S, InOrder(s),
         \A x \in Range(s) : Follows(x, p)
  PROVE  InOrder(Append(s, p))
<1>1. /\ DOMAIN s = 1..Len(s) /\ Len(s) \in Nat
      /\ DOMAIN Append(s, p) = 1..(Len(s) + 1)
      /\ Append(s, p)[Len(s) + 1] = p
      /\ \A i \in 1..Len(s) : Append(s, p)[i] = s[i]
  OBVIOUS
<1>2. QED
  BY <1>1 DEF InOrder, Range

\* Two ordered sequences, the second of which may follow the first, are one.
LEMMA ConcatInOrder ==
  ASSUME NEW S, NEW s \in Seq(S), NEW t \in Seq(S), InOrder(s), InOrder(t), Before(s, t)
  PROVE  InOrder(s \o t)
<1>1. /\ DOMAIN s = 1..Len(s) /\ Len(s) \in Nat /\ DOMAIN t = 1..Len(t) /\ Len(t) \in Nat
      /\ DOMAIN (s \o t) = 1..(Len(s) + Len(t))
      /\ \A i \in 1..Len(s) : (s \o t)[i] = s[i]
      /\ \A i \in (Len(s) + 1)..(Len(s) + Len(t)) : (s \o t)[i] = t[i - Len(s)]
  OBVIOUS
<1> DEFINE st == s \o t
<1> HIDE DEF st
<1>2. ASSUME NEW j \in 1..(Len(s) + Len(t)), NEW i \in 1..(j - 1) PROVE Follows(st[i], st[j])
  <2>1. CASE j \in 1..Len(s)
    BY <1>1, <2>1 DEF InOrder, st
  <2>2. CASE j \notin 1..Len(s) /\ i \in 1..Len(s)
    <3>1. st[i] \in Range(s) /\ st[j] \in Range(t)
      BY <1>1, <2>2 DEF Range, st
    <3>2. QED
      BY <3>1 DEF Before
  <2>3. CASE i \notin 1..Len(s)
    <3>1. /\ st[i] = t[i - Len(s)] /\ st[j] = t[j - Len(s)]
          /\ j - Len(s) \in DOMAIN t /\ i - Len(s) \in 1..((j - Len(s)) - 1)
      BY <1>1, <2>3 DEF st
    <3>2. QED
      BY <3>1 DEF InOrder
  <2>4. QED
    BY <2>1, <2>2, <2>3
<1>3. QED
  BY <1>1, <1>2 DEF InOrder, st

\* The packets of two sequences.
LEMMA ConcatRange ==
  ASSUME NEW S, NEW s \in Seq(S), NEW t \in Seq(S)
  PROVE  s \o t \in Seq(S) /\ Range(s \o t) = Range(s) \cup Range(t)
<1> DEFINE st == s \o t
<1>1. /\ DOMAIN s = 1..Len(s) /\ Len(s) \in Nat /\ DOMAIN t = 1..Len(t) /\ Len(t) \in Nat
      /\ DOMAIN st = 1..(Len(s) + Len(t)) /\ st \in Seq(S)
      /\ \A i \in 1..Len(s) : st[i] = s[i]
      /\ \A i \in (Len(s) + 1)..(Len(s) + Len(t)) : st[i] = t[i - Len(s)]
      /\ \A i \in 1..Len(t) : st[i + Len(s)] = t[i]
  OBVIOUS
<1> HIDE DEF st
<1>2. Range(st) \subseteq Range(s) \cup Range(t)
  <2> SUFFICES ASSUME NEW i \in DOMAIN st PROVE st[i] \in Range(s) \cup Range(t)
    BY DEF Range
  <2>1. \/ i \in DOMAIN s /\ st[i] = s[i]
        \/ i - Len(s) \in DOMAIN t /\ st[i] = t[i - Len(s)]
    BY <1>1
  <2>2. QED
    BY <2>1 DEF Range
<1>3. Range(s) \subseteq Range(st)
  BY <1>1 DEF Range
<1>4. Range(t) \subseteq Range(st)
  <2> SUFFICES ASSUME NEW i \in DOMAIN t PROVE t[i] \in Range(st)
    BY DEF Range
  <2>1. i + Len(s) \in DOMAIN st /\ st[i + Len(s)] = t[i]
    BY <1>1
  <2>2. QED
    BY <2>1 DEF Range
<1>5. QED
  BY <1>1, <1>2, <1>3, <1>4 DEF st

-----------------------------------------------------------------------------
(* The handlers: what they make of a session with nothing in flushed. *)

\* Everything but the queue and what is flushed.
SameRest(s, h) ==
  /\ h \in Session
  /\ h.startGameSent = s.startGameSent /\ h.spawnSequenceSent = s.spawnSequenceSent
  /\ h.dropped = s.dropped

SameCodecs(s, h) == h.codecs = s.codecs

\* h has flushed one batch with these packets.
Flushed(s, h, packets) ==
  /\ h.pendingBatch = <<>>
  /\ h.flushed = <<Batch(packets, s.codecs.compressionEnabled, s.codecs.encryptionEnabled,
                         s.codecs.sendPacketCounter)>>
  /\ h.codecs = IF s.codecs.encryptionEnabled
                THEN [s.codecs EXCEPT !.sendPacketCounter = @ + 1] ELSE s.codecs

\* queueGamePacket() only adds to the batch.
LEMMA QueueFacts ==
  ASSUME NEW s \in Session, NEW p \in ToClient
  PROVE  /\ SameRest(s, queueGamePacket(s, p)) /\ SameCodecs(s, queueGamePacket(s, p))
         /\ queueGamePacket(s, p).pendingBatch = Append(s.pendingBatch, p)
         /\ queueGamePacket(s, p).flushed = s.flushed
<1>1. Append(s.pendingBatch, p) \in Seq(ToClient)
  BY DEF Session
<1> DEFINE q == Append(s.pendingBatch, p)
<1>2. queueGamePacket(s, p) = [s EXCEPT !.pendingBatch = q]
  BY DEF queueGamePacket
<1> HIDE DEF q
<1>3. /\ [s EXCEPT !.pendingBatch = q] \in Session
      /\ [s EXCEPT !.pendingBatch = q].pendingBatch = q
      /\ [s EXCEPT !.pendingBatch = q].flushed = s.flushed
      /\ [s EXCEPT !.pendingBatch = q].codecs = s.codecs
      /\ [s EXCEPT !.pendingBatch = q].startGameSent = s.startGameSent
      /\ [s EXCEPT !.pendingBatch = q].spawnSequenceSent = s.spawnSequenceSent
      /\ [s EXCEPT !.pendingBatch = q].dropped = s.dropped
  BY <1>1 DEF q, Session
<1>4. QED
  BY <1>2, <1>3 DEF SameRest, SameCodecs, q

\* A batch has its type.
LEMMA BatchType ==
  ASSUME NEW kinds, NEW packets \in Seq(kinds), NEW c \in BOOLEAN, NEW e \in BOOLEAN, NEW n \in Nat
  PROVE  /\ Batch(packets, c, e, n) \in Batches(kinds)
         /\ Batch(packets, c, e, n).packets = packets
         /\ Batch(packets, c, e, n).compressed = c
         /\ Batch(packets, c, e, n).encrypted = e
         /\ Batch(packets, c, e, n).counter = IF e THEN n ELSE 0
BY DEF Batch, Batches

\* The fields of the codecs have their types.
LEMMA CodecsFacts ==
  ASSUME NEW s \in Session
  PROVE  /\ s.codecs \in Codecs
         /\ s.codecs.compressionEnabled \in BOOLEAN /\ s.codecs.encryptionEnabled \in BOOLEAN
         /\ s.codecs.sendPacketCounter \in Nat /\ s.codecs.recvPacketCounter \in Nat
BY DEF Session, Codecs

\* flushGamePackets() sends the batch as the codecs say, and counts it if encrypted.
LEMMA FlushFacts ==
  ASSUME NEW s \in Session, s.flushed = <<>>, s.pendingBatch # <<>>
  PROVE  SameRest(s, flushGamePackets(s)) /\ Flushed(s, flushGamePackets(s), s.pendingBatch)
<1> DEFINE b == <<Batch(s.pendingBatch, s.codecs.compressionEnabled,
                        s.codecs.encryptionEnabled, s.codecs.sendPacketCounter)>>
           c == IF s.codecs.encryptionEnabled
                THEN [s.codecs EXCEPT !.sendPacketCounter = @ + 1] ELSE s.codecs
           e == <<>>
           f == flushGamePackets(s)
<1>1. b \in Seq(Batches(ToClient)) /\ c \in Codecs /\ e \in Seq(ToClient)
  <2>1. s.pendingBatch \in Seq(ToClient)
    BY DEF Session
  <2>2. Batch(s.pendingBatch, s.codecs.compressionEnabled,
              s.codecs.encryptionEnabled, s.codecs.sendPacketCounter) \in Batches(ToClient)
    BY <2>1, CodecsFacts, BatchType
  <2>3. c \in Codecs
    BY CodecsFacts DEF Codecs
  <2>4. QED
    BY <2>2, <2>3
<1>2. f = [s EXCEPT !.pendingBatch = e, !.flushed = b, !.codecs = c]
  <2>1. [s EXCEPT !.pendingBatch = <<>>, !.flushed = b,
                  !.codecs.sendPacketCounter =
                     IF s.codecs.encryptionEnabled THEN @ + 1 ELSE @]
          = [s EXCEPT !.pendingBatch = e, !.flushed = b, !.codecs = c]
    BY CodecsFacts DEF Session, Codecs
  <2>2. QED
    BY <2>1 DEF flushGamePackets
<1> HIDE DEF b, c, e, f
<1>3. /\ f \in Session /\ f.pendingBatch = e /\ f.flushed = b /\ f.codecs = c
      /\ f.startGameSent = s.startGameSent /\ f.spawnSequenceSent = s.spawnSequenceSent
      /\ f.dropped = s.dropped
  BY <1>1, <1>2 DEF Session
<1>4. QED
  BY <1>3 DEF SameRest, Flushed, b, c, e, f

\* What is flushed depends on the codecs and the packets alone.
LEMMA FlushedQueue ==
  ASSUME NEW s \in Session, NEW q, NEW packets, SameRest(s, q), SameCodecs(s, q),
         q.flushed = <<>>, q.pendingBatch = packets, packets # <<>>
  PROVE  /\ SameRest(s, flushGamePackets(q))
         /\ Flushed(s, flushGamePackets(q), packets)
BY FlushFacts DEF SameRest, SameCodecs, Flushed

\* sendGamePacket() sends the packet behind what is queued.
LEMMA SendFacts ==
  ASSUME NEW s \in Session, s.flushed = <<>>, NEW p \in ToClient
  PROVE  /\ SameRest(s, sendGamePacket(s, p))
         /\ Flushed(s, sendGamePacket(s, p), Append(s.pendingBatch, p))
<1>1. Append(s.pendingBatch, p) # <<>>
  BY DEF Session
<1>2. QED
  BY <1>1, QueueFacts, FlushedQueue DEF sendGamePacket

\* Two packets, queued one after the other, go out together.
LEMMA SendTwoFacts ==
  ASSUME NEW s \in Session, s.flushed = <<>>, NEW p \in ToClient, NEW q \in ToClient
  PROVE  LET h == sendGamePacket(queueGamePacket(s, p), q)
         IN  SameRest(s, h) /\ Flushed(s, h, Append(Append(s.pendingBatch, p), q))
<1> DEFINE r == queueGamePacket(s, p)
<1>1. /\ SameRest(s, r) /\ SameCodecs(s, r) /\ r.flushed = <<>> /\ r \in Session
      /\ r.pendingBatch = Append(s.pendingBatch, p)
  BY QueueFacts DEF SameRest
<1> HIDE DEF r
<1>2. SameRest(r, sendGamePacket(r, q)) /\ Flushed(r, sendGamePacket(r, q), Append(r.pendingBatch, q))
  BY <1>1, SendFacts
<1>3. SameRest(s, sendGamePacket(r, q)) /\ Flushed(s, sendGamePacket(r, q), Append(r.pendingBatch, q))
  BY <1>1, <1>2 DEF SameRest, SameCodecs, Flushed
<1>4. QED
  BY <1>1, <1>3 DEF r

\* sendNetworkSettings() answers in the clear and compresses from then on.
LEMMA NetworkSettingsFacts ==
  ASSUME NEW s \in Session, s.flushed = <<>>
  PROVE  LET h == sendNetworkSettings(s)
         IN  /\ SameRest(s, h) /\ h.pendingBatch = s.pendingBatch
             /\ h.flushed = <<Batch(<<"NetworkSettings">>, FALSE, FALSE, 0)>>
             /\ h.codecs = [s.codecs EXCEPT !.compressionEnabled = TRUE]
<1> DEFINE b == <<Batch(<<"NetworkSettings">>, FALSE, FALSE, 0)>>
           c == [s.codecs EXCEPT !.compressionEnabled = TRUE]
           h == sendNetworkSettings(s)
<1>1. b \in Seq(Batches(ToClient))
  <2>1. <<"NetworkSettings">> \in Seq(ToClient)
    BY DEF ToClient
  <2> DEFINE batch == Batch(<<"NetworkSettings">>, FALSE, FALSE, 0)
  <2>2. batch \in Batches(ToClient)
    BY <2>1, BatchType
  <2> HIDE DEF batch
  <2>3. <<batch>> \in Seq(Batches(ToClient))
    BY <2>2
  <2>4. QED
    BY <2>3 DEF batch
<1>2. c \in Codecs
  BY CodecsFacts DEF Codecs
<1>3. h = [s EXCEPT !.flushed = b, !.codecs = c]
  BY CodecsFacts DEF sendNetworkSettings, Session, Codecs
<1> HIDE DEF b, c, h
<1>4. /\ h \in Session /\ h.pendingBatch = s.pendingBatch /\ h.flushed = b /\ h.codecs = c
      /\ h.startGameSent = s.startGameSent /\ h.spawnSequenceSent = s.spawnSequenceSent
      /\ h.dropped = s.dropped
  BY <1>1, <1>2, <1>3 DEF Session
<1>5. QED
  BY <1>4 DEF SameRest, b, c, h

\* initClientEncryption() encrypts from then on, counting from 0.
LEMMA EncryptionFacts ==
  ASSUME NEW s \in Session
  PROVE  LET h == initClientEncryption(s)
         IN  /\ SameRest(s, h) /\ h.pendingBatch = s.pendingBatch /\ h.flushed = s.flushed
             /\ h.codecs.compressionEnabled = s.codecs.compressionEnabled
             /\ h.codecs.encryptionEnabled = TRUE
             /\ h.codecs.sendPacketCounter = 0 /\ h.codecs.recvPacketCounter = 0
<1> DEFINE c == [s.codecs EXCEPT !.sendPacketCounter = 0, !.recvPacketCounter = 0,
                                 !.encryptionEnabled = TRUE]
           h == initClientEncryption(s)
<1>1. /\ c \in Codecs /\ c.compressionEnabled = s.codecs.compressionEnabled
      /\ c.encryptionEnabled = TRUE /\ c.sendPacketCounter = 0 /\ c.recvPacketCounter = 0
  BY CodecsFacts DEF Codecs
<1>2. h = [s EXCEPT !.codecs = c]
  BY DEF initClientEncryption, Session
<1> HIDE DEF c, h
<1>3. /\ h \in Session /\ h.pendingBatch = s.pendingBatch /\ h.flushed = s.flushed /\ h.codecs = c
      /\ h.startGameSent = s.startGameSent /\ h.spawnSequenceSent = s.spawnSequenceSent
      /\ h.dropped = s.dropped
  BY <1>1, <1>2 DEF Session
<1>4. QED
  BY <1>1, <1>3 DEF SameRest, h

\* handleClientToServerHandshake() sends one batch.
LEMMA ResourcePacksFacts ==
  ASSUME NEW s \in Session, s.flushed = <<>>
  PROVE  LET h == handleClientToServerHandshake(s)
         IN  /\ SameRest(s, h)
             /\ Flushed(s, h, Append(Append(s.pendingBatch, "LoginSuccess"), "ResourcePacksInfo"))
BY SendTwoFacts DEF handleClientToServerHandshake, sendResourcePacksInfo, sendPlayStatus, ToClient

\* handleLogin() sends one batch; only the handshake changes the codecs.
LEMMA LoginFacts ==
  ASSUME NEW s \in Session, s.flushed = <<>>, client.identity \in Identity
  PROVE  LET h == handleLogin(s)
         IN  /\ SameRest(s, h)
             /\ \/ /\ h.pendingBatch = <<>>
                   /\ h.flushed = <<Batch(Append(s.pendingBatch, "ServerToClientHandshake"),
                                          s.codecs.compressionEnabled,
                                          s.codecs.encryptionEnabled,
                                          s.codecs.sendPacketCounter)>>
                   /\ h.codecs.compressionEnabled = s.codecs.compressionEnabled
                   /\ h.codecs.encryptionEnabled = TRUE
                   /\ h.codecs.sendPacketCounter = 0 /\ h.codecs.recvPacketCounter = 0
                \/ Flushed(s, h, Append(s.pendingBatch, "ResourcePacksInfo"))
                \/ Flushed(s, h, Append(Append(s.pendingBatch, "LoginSuccess"),
                                        "ResourcePacksInfo"))
<1> DEFINE known == [s EXCEPT !.loggedIn = client.identity # "invalid"]
           h == handleLogin(s)
<1>1. /\ SameRest(s, known) /\ SameCodecs(s, known) /\ known \in Session
      /\ known.flushed = <<>> /\ known.pendingBatch = s.pendingBatch
  BY DEF Session, SameRest, SameCodecs
<1>2. h = IF client.identity \in {"online", "badKey"} THEN sendServerToClientHandshake(known)
          ELSE handleClientToServerHandshake(known)
  BY DEF handleLogin, handleClientToServerHandshake
<1> HIDE DEF known, h
<1>3. CASE client.identity = "badKey"
  <2>1. h = sendGamePacket(known, "ResourcePacksInfo")
    BY <1>2, <1>3 DEF sendServerToClientHandshake, sendResourcePacksInfo
  <2>2. SameRest(known, h) /\ Flushed(known, h, Append(s.pendingBatch, "ResourcePacksInfo"))
    BY <1>1, <2>1, SendFacts DEF ToClient
  <2>3. QED
    BY <1>1, <2>2 DEF SameRest, SameCodecs, Flushed, h
<1>4. CASE client.identity = "online"
  <2> DEFINE t == sendGamePacket(known, "ServerToClientHandshake")
  <2>1. h = initClientEncryption(t)
    BY <1>2, <1>4 DEF sendServerToClientHandshake
  <2>2. SameRest(known, t) /\ Flushed(known, t, Append(s.pendingBatch, "ServerToClientHandshake"))
    BY <1>1, SendFacts DEF ToClient
  <2> HIDE DEF t
  <2>3. t \in Session
    BY <2>2 DEF SameRest
  <2>4. t.codecs.compressionEnabled = s.codecs.compressionEnabled
    BY <1>1, <2>2, CodecsFacts DEF Flushed, SameCodecs, Codecs
  <2>5. /\ SameRest(t, h) /\ h.pendingBatch = t.pendingBatch /\ h.flushed = t.flushed
        /\ h.codecs.compressionEnabled = t.codecs.compressionEnabled
        /\ h.codecs.encryptionEnabled = TRUE
        /\ h.codecs.sendPacketCounter = 0 /\ h.codecs.recvPacketCounter = 0
    BY <2>1, <2>3, EncryptionFacts
  <2>6. SameRest(s, h)
    BY <1>1, <2>2, <2>5 DEF SameRest
  <2>7. /\ t.pendingBatch = <<>>
        /\ t.flushed = <<Batch(Append(s.pendingBatch, "ServerToClientHandshake"),
                               s.codecs.compressionEnabled, s.codecs.encryptionEnabled,
                               s.codecs.sendPacketCounter)>>
    BY <1>1, <2>2 DEF Flushed, SameCodecs
  <2>8. QED
    BY <2>4, <2>5, <2>6, <2>7 DEF h
<1>5. CASE client.identity \notin {"online", "badKey"}
  <2>1. h = handleClientToServerHandshake(known)
    BY <1>2, <1>5
  <2>2. /\ SameRest(known, h)
        /\ Flushed(known, h, Append(Append(s.pendingBatch, "LoginSuccess"), "ResourcePacksInfo"))
    BY <1>1, <2>1, ResourcePacksFacts
  <2>3. QED
    BY <1>1, <2>2 DEF SameRest, SameCodecs, Flushed, h
<1>6. QED
  BY <1>3, <1>4, <1>5

-----------------------------------------------------------------------------
(* The handlers of the packets that follow the greetings. *)

\* Everything sent so far may be followed by these packets: rank is a bound for
\* what was sent, and what is new is above it.
Above(rank, packets) ==
  \A p \in Range(packets) :
    p \in DOMAIN Rank => Rank[p] > rank \/ (p = "ResourcePacksStack" /\ rank = 5)

\* From s, a handler goes to h and sends packets.
Proceeds(s, h, packets) ==
  /\ h \in Session /\ h.dropped = s.dropped
  /\ Range(h.pendingBatch) \subseteq {"ChunkRadiusUpdated"}
  /\ \/ packets = <<>> /\ h.flushed = <<>> /\ SameCodecs(s, h)
     \/ Flushed(s, h, packets)
  /\ packets \in Seq(ToClient) /\ Range(packets) \cap Switches = {} /\ InOrder(packets)
  /\ s.startGameSent => h.startGameSent
  /\ s.spawnSequenceSent => h.spawnSequenceSent
  /\ h.spawnSequenceSent => h.startGameSent
  /\ ~h.startGameSent => AtMost(5, packets)
  /\ ~h.spawnSequenceSent => AtMost(7, packets)
  /\ \/ Above(9, packets)
     \/ ~s.startGameSent /\ Above(5, packets)
     \/ ~s.spawnSequenceSent /\ Above(7, packets)

\* The session a handler meets.
Met(s) ==
  /\ s \in Session /\ s.flushed = <<>>
  /\ Range(s.pendingBatch) \subseteq {"ChunkRadiusUpdated"}
  /\ s.spawnSequenceSent => s.startGameSent

\* A radius may wait in the queue.
LEMMA QuietQueue ==
  ASSUME NEW s, Met(s)
  PROVE  /\ s.pendingBatch \in Seq(ToClient) /\ InOrder(s.pendingBatch)
         /\ Range(s.pendingBatch) \cap DOMAIN Rank = {}
         /\ Range(s.pendingBatch) \cap Switches = {}
<1>1. s.pendingBatch \in Seq(ToClient)
  BY DEF Met, Session
<1>2. "ChunkRadiusUpdated" \notin DOMAIN Rank /\ "ChunkRadiusUpdated" \notin Switches
  BY RankFacts DEF Switches
<1>3. Range(s.pendingBatch) \cap DOMAIN Rank = {} /\ Range(s.pendingBatch) \cap Switches = {}
  BY <1>2 DEF Met
<1>4. InOrder(s.pendingBatch)
  <2>1. \A i \in DOMAIN s.pendingBatch : s.pendingBatch[i] \notin DOMAIN Rank
    BY <1>3 DEF Range
  <2>2. QED
    BY <2>1 DEF InOrder, Follows
<1>5. QED
  BY <1>1, <1>3, <1>4

\* A handler that does nothing.
LEMMA NothingSent ==
  /\ <<>> \in Seq(ToClient) /\ Range(<<>>) = {} /\ InOrder(<<>>)
  /\ \A rank : AtMost(rank, <<>>) /\ Above(rank, <<>>)
BY DEF Range, InOrder, AtMost, Above

\* HaveAllPacks sends the stack until the game has started.
LEMMA HaveAllPacksProceeds ==
  ASSUME NEW s, Met(s)
  PROVE  \E packets : Proceeds(s, handleHaveAllPacks(s), packets)
<1>1. CASE s.startGameSent
  <2>1. handleHaveAllPacks(s) = s
    BY <1>1 DEF handleHaveAllPacks
  <2>2. Proceeds(s, s, <<>>)
    BY NothingSent DEF Proceeds, Met, SameCodecs
  <2>3. QED
    BY <2>1, <2>2
<1>2. CASE ~s.startGameSent
  <2> DEFINE h == handleHaveAllPacks(s)
             packets == Append(s.pendingBatch, "ResourcePacksStack")
  <2>1. SameRest(s, h) /\ Flushed(s, h, packets)
    BY <1>2, SendFacts DEF handleHaveAllPacks, sendResourcePacksStack, Met, ToClient
  <2>2. /\ packets \in Seq(ToClient)
        /\ Range(packets) = Range(s.pendingBatch) \cup {"ResourcePacksStack"}
    BY QuietQueue, AppendRange DEF ToClient
  <2>3. InOrder(packets)
    <3>1. \A x \in Range(s.pendingBatch) : Follows(x, "ResourcePacksStack")
      BY QuietQueue DEF Follows
    <3>2. QED
      BY <3>1, QuietQueue, AppendInOrder DEF ToClient
  <2> HIDE DEF h, packets
  <2>4. AtMost(5, packets) /\ AtMost(7, packets) /\ Above(5, packets)
    BY <2>2, QuietQueue, RankFacts DEF AtMost, Above
  <2>5. Range(packets) \cap Switches = {}
    BY <2>2, QuietQueue DEF Switches
  <2>6. Range(h.pendingBatch) \subseteq {"ChunkRadiusUpdated"}
    BY <2>1 DEF Flushed, Range
  <2>7. Proceeds(s, h, packets)
    BY <1>2, <2>1, <2>2, <2>3, <2>4, <2>5, <2>6 DEF Proceeds, SameRest, Met
  <2>8. QED
    BY <2>7 DEF h
<1>3. QED
  BY <1>1, <1>2

\* Completed starts the game once.
LEMMA CompletedProceeds ==
  ASSUME NEW s, Met(s)
  PROVE  \E packets : Proceeds(s, completeResourcePackStageAndStartGame(s), packets)
<1>1. CASE s.startGameSent
  <2>1. completeResourcePackStageAndStartGame(s) = s
    BY <1>1 DEF completeResourcePackStageAndStartGame
  <2>2. Proceeds(s, s, <<>>)
    BY NothingSent DEF Proceeds, Met, SameCodecs
  <2>3. QED
    BY <2>1, <2>2
<1>2. CASE ~s.startGameSent
  <2> DEFINE started == [s EXCEPT !.startGameSent = TRUE]
             h == completeResourcePackStageAndStartGame(s)
             first == Append(s.pendingBatch, "StartGame")
             packets == Append(first, "ItemRegistry")
  <2>1. /\ started \in Session /\ started.startGameSent /\ SameCodecs(s, started)
        /\ started.spawnSequenceSent = s.spawnSequenceSent /\ started.dropped = s.dropped
        /\ started.flushed = <<>> /\ started.pendingBatch = s.pendingBatch
    BY DEF Met, Session, SameCodecs
  <2>2. h = sendGamePacket(queueGamePacket(started, "StartGame"), "ItemRegistry")
    BY <1>2 DEF completeResourcePackStageAndStartGame, sendStartGame, sendGamePacket
  <2> HIDE DEF started
  <2>3. SameRest(started, h) /\ Flushed(started, h, packets)
    BY <2>1, <2>2, SendTwoFacts DEF ToClient
  <2>4. first \in Seq(ToClient) /\ Range(first) = Range(s.pendingBatch) \cup {"StartGame"}
    BY QuietQueue, AppendRange DEF ToClient
  <2>5. InOrder(first)
    <3>1. \A x \in Range(s.pendingBatch) : Follows(x, "StartGame")
      BY QuietQueue DEF Follows
    <3>2. QED
      BY <3>1, QuietQueue, AppendInOrder DEF ToClient
  <2> HIDE DEF h, first
  <2>6. packets \in Seq(ToClient) /\ Range(packets) = Range(first) \cup {"ItemRegistry"}
    BY <2>4, AppendRange DEF ToClient
  <2>7. InOrder(packets)
    <3>1. \A x \in Range(first) : Follows(x, "ItemRegistry")
      BY <2>4, QuietQueue, RankFacts DEF Follows
    <3>2. QED
      BY <2>4, <2>5, <3>1, AppendInOrder DEF ToClient
  <2> HIDE DEF packets
  <2>8. AtMost(7, packets) /\ Above(5, packets)
    BY <2>4, <2>6, QuietQueue, RankFacts DEF AtMost, Above
  <2>9. Range(packets) \cap Switches = {}
    BY <2>4, <2>6, QuietQueue DEF Switches
  <2>10. Range(h.pendingBatch) \subseteq {"ChunkRadiusUpdated"}
    BY <2>3 DEF Flushed, Range
  <2>11. Flushed(s, h, packets)
    BY <2>1, <2>3 DEF Flushed, SameCodecs
  <2>12. Proceeds(s, h, packets)
    BY <1>2, <2>1, <2>3, <2>6, <2>7, <2>8, <2>9, <2>10, <2>11 DEF Proceeds, SameRest, Met
  <2>13. QED
    BY <2>12 DEF h
<1>3. QED
  BY <1>1, <1>2

\* RequestChunkRadius spawns the player once.
LEMMA RequestChunkRadiusProceeds ==
  ASSUME NEW s, Met(s), s.startGameSent
  PROVE  \E packets : Proceeds(s, handleRequestChunkRadius(s), packets)
<1> DEFINE queued == queueGamePacket(s, "ChunkRadiusUpdated")
           first  == Append(s.pendingBatch, "ChunkRadiusUpdated")
           h      == handleRequestChunkRadius(s)
<1>1. /\ SameRest(s, queued) /\ SameCodecs(s, queued) /\ queued \in Session
      /\ queued.pendingBatch = first /\ queued.flushed = <<>>
  BY QueueFacts DEF Met, SameRest, ToClient
<1>2. h = sendSpawnSequence(queued)
  BY DEF handleRequestChunkRadius
<1>3. /\ first \in Seq(ToClient)
      /\ Range(first) \subseteq {"ChunkRadiusUpdated"}
  BY QuietQueue, AppendRange DEF Met, ToClient
<1> HIDE DEF queued, first, h
<1>4. CASE s.spawnSequenceSent
  <2>1. h = queued
    BY <1>1, <1>2, <1>4 DEF sendSpawnSequence, SameRest
  <2>2. Proceeds(s, h, <<>>)
    BY <1>1, <1>3, <2>1, <1>4, NothingSent DEF Proceeds, Met, SameRest
  <2>3. QED
    BY <2>2 DEF h
<1>5. CASE ~s.spawnSequenceSent
  <2> DEFINE spawning == [queued EXCEPT !.spawnSequenceSent = TRUE]
             second   == Append(first, "PlayerSpawn")
             packets  == Append(second, "CreativeContent")
  <2>1. /\ spawning \in Session /\ spawning.spawnSequenceSent /\ SameCodecs(queued, spawning)
        /\ spawning.startGameSent = queued.startGameSent
        /\ spawning.dropped = queued.dropped
        /\ spawning.flushed = <<>> /\ spawning.pendingBatch = first
    BY <1>1 DEF Session, SameCodecs
  <2>2. h = sendGamePacket(queueGamePacket(spawning, "PlayerSpawn"), "CreativeContent")
    BY <1>1, <1>2, <1>5 DEF sendSpawnSequence, sendPlayStatus, sendGamePacket, SameRest
  <2> HIDE DEF spawning
  <2>3. SameRest(spawning, h) /\ Flushed(spawning, h, packets)
    BY <2>1, <2>2, SendTwoFacts DEF ToClient
  <2>4. second \in Seq(ToClient) /\ Range(second) = Range(first) \cup {"PlayerSpawn"}
    BY <1>3, AppendRange DEF ToClient
  <2>5. InOrder(first)
    <3>1. \A i \in DOMAIN first : first[i] \notin DOMAIN Rank
      BY <1>3, RankFacts DEF Range
    <3>2. QED
      BY <3>1 DEF InOrder, Follows
  <2>6. InOrder(second)
    <3>1. \A x \in Range(first) : Follows(x, "PlayerSpawn")
      BY <1>3, RankFacts DEF Follows
    <3>2. QED
      BY <1>3, <2>5, <3>1, AppendInOrder DEF ToClient
  <2> HIDE DEF second
  <2>7. packets \in Seq(ToClient) /\ Range(packets) = Range(second) \cup {"CreativeContent"}
    BY <2>4, AppendRange DEF ToClient
  <2>8. InOrder(packets)
    <3>1. \A x \in Range(second) : Follows(x, "CreativeContent")
      BY <1>3, <2>4, RankFacts DEF Follows
    <3>2. QED
      BY <2>4, <2>6, <3>1, AppendInOrder DEF ToClient
  <2> HIDE DEF packets
  <2>9. Above(7, packets)
    BY <1>3, <2>4, <2>7, RankFacts DEF Above
  <2>10. Range(packets) \cap Switches = {}
    BY <1>3, <2>4, <2>7 DEF Switches
  <2>11. Range(h.pendingBatch) \subseteq {"ChunkRadiusUpdated"}
    BY <2>3 DEF Flushed, Range
  <2>12. Flushed(s, h, packets)
    BY <1>1, <2>1, <2>3 DEF Flushed, SameCodecs
  <2>13. /\ h \in Session /\ h.dropped = s.dropped /\ h.startGameSent /\ h.spawnSequenceSent
    BY <1>1, <2>1, <2>3 DEF SameRest
  <2>14. Proceeds(s, h, packets)
    BY <1>5, <2>7, <2>8, <2>9, <2>10, <2>11, <2>12, <2>13 DEF Proceeds
  <2>15. QED
    BY <2>14 DEF h
<1>6. QED
  BY <1>4, <1>5

\* TickSync is answered.
LEMMA TickSyncProceeds ==
  ASSUME NEW s, Met(s)
  PROVE  \E packets : Proceeds(s, handleTickSync(s), packets)
<1> DEFINE h == handleTickSync(s)
           packets == Append(s.pendingBatch, "TickSync")
<1>1. SameRest(s, h) /\ Flushed(s, h, packets)
  BY SendFacts DEF handleTickSync, Met, ToClient
<1>2. packets \in Seq(ToClient) /\ Range(packets) = Range(s.pendingBatch) \cup {"TickSync"}
  BY QuietQueue, AppendRange DEF ToClient
<1>3. InOrder(packets)
  <2>1. \A x \in Range(s.pendingBatch) : Follows(x, "TickSync")
    BY QuietQueue DEF Follows
  <2>2. QED
    BY <2>1, QuietQueue, AppendInOrder DEF ToClient
<1> HIDE DEF h, packets
<1>4. AtMost(5, packets) /\ AtMost(7, packets) /\ Above(9, packets)
  BY <1>2, QuietQueue, RankFacts DEF AtMost, Above
<1>5. Range(packets) \cap Switches = {}
  BY <1>2, QuietQueue DEF Switches
<1>6. Range(h.pendingBatch) \subseteq {"ChunkRadiusUpdated"}
  BY <1>1 DEF Flushed, Range
<1>7. Proceeds(s, h, packets)
  BY <1>1, <1>2, <1>3, <1>4, <1>5, <1>6 DEF Proceeds, SameRest, Met
<1>8. QED
  BY <1>7 DEF h

\* Phase 2 and PlayerAuthInput only set flags the join sequence does not ask for.
LEMMA FlagsProceed ==
  ASSUME NEW s, Met(s)
  PROVE  /\ \E packets : Proceeds(s, sendSpawnSequencePhase2(s), packets)
         /\ \E packets : Proceeds(s, handlePlayerAuthInput(s), packets)
<1>1. ASSUME NEW h, SameRest(s, h), SameCodecs(s, h), h.pendingBatch = s.pendingBatch,
             h.flushed = <<>>
      PROVE  \E packets : Proceeds(s, h, packets)
  <2>1. Proceeds(s, h, <<>>)
    BY <1>1, NothingSent DEF Proceeds, Met, SameRest
  <2>2. QED
    BY <2>1
<1>2. LET h == sendSpawnSequencePhase2(s)
      IN  /\ SameRest(s, h) /\ SameCodecs(s, h) /\ h.pendingBatch = s.pendingBatch
          /\ h.flushed = <<>>
  BY DEF sendSpawnSequencePhase2, Met, Session, SameRest, SameCodecs
<1>3. LET h == handlePlayerAuthInput(s)
      IN  /\ SameRest(s, h) /\ SameCodecs(s, h) /\ h.pendingBatch = s.pendingBatch
          /\ h.flushed = <<>>
  BY DEF handlePlayerAuthInput, sendSpawnSequencePhase2, Met, Session, SameRest, SameCodecs
<1>4. QED
  BY <1>1, <1>2, <1>3

-----------------------------------------------------------------------------
(* One batch of the client while both sides stream. *)

\* Decrypting moves one counter.
LEMMA DecryptedFacts ==
  ASSUME Typed
  PROVE  LET s == Decrypted(server)
         IN  /\ SameRest(server, s) /\ s.flushed = <<>> /\ s.pendingBatch = server.pendingBatch
             /\ s.codecs.compressionEnabled = server.codecs.compressionEnabled
             /\ s.codecs.encryptionEnabled = server.codecs.encryptionEnabled
             /\ s.codecs.sendPacketCounter = server.codecs.sendPacketCounter
             /\ s.codecs.recvPacketCounter = server.codecs.recvPacketCounter
                  + (IF server.codecs.encryptionEnabled THEN 1 ELSE 0)
<1> DEFINE c == IF server.codecs.encryptionEnabled
                THEN [server.codecs EXCEPT !.recvPacketCounter = @ + 1] ELSE server.codecs
           s == Decrypted(server)
<1>1. server \in Session /\ server.flushed = <<>> /\ server.codecs \in Codecs
  BY CodecsFacts DEF Typed
<1>2. /\ c \in Codecs /\ c.compressionEnabled = server.codecs.compressionEnabled
      /\ c.encryptionEnabled = server.codecs.encryptionEnabled
      /\ c.sendPacketCounter = server.codecs.sendPacketCounter
      /\ c.recvPacketCounter = server.codecs.recvPacketCounter
           + (IF server.codecs.encryptionEnabled THEN 1 ELSE 0)
  BY <1>1 DEF Codecs
<1>3. s = [server EXCEPT !.codecs = c]
  BY <1>1 DEF Decrypted, Session, Codecs
<1> HIDE DEF c, s
<1>4. /\ s \in Session /\ s.pendingBatch = server.pendingBatch /\ s.codecs = c
      /\ s.flushed = server.flushed
      /\ s.startGameSent = server.startGameSent
      /\ s.spawnSequenceSent = server.spawnSequenceSent /\ s.dropped = server.dropped
  BY <1>1, <1>2, <1>3 DEF Session
<1>5. QED
  BY <1>1, <1>2, <1>4 DEF SameRest, s

\* The batches behind the first.
LEMMA TailFacts ==
  ASSUME NEW S, NEW s \in Seq(S), s # <<>>
  PROVE  /\ s[1] \in S /\ 1 \in DOMAIN s /\ Head(s) = s[1]
         /\ Tail(s) \in Seq(S) /\ Len(s) \in Nat \ {0} /\ Len(Tail(s)) = Len(s) - 1
         /\ DOMAIN s = 1..Len(s) /\ DOMAIN Tail(s) = 1..(Len(s) - 1)
         /\ \A i \in DOMAIN Tail(s) : Tail(s)[i] = s[i + 1] /\ i + 1 \in DOMAIN s
OBVIOUS

\* The batches and the new one behind them.
LEMMA AppendFacts ==
  ASSUME NEW S, NEW s \in Seq(S), NEW x \in S
  PROVE  /\ Append(s, x) \in Seq(S) /\ Len(s) \in Nat
         /\ DOMAIN s = 1..Len(s) /\ DOMAIN Append(s, x) = 1..(Len(s) + 1)
         /\ Len(Append(s, x)) = Len(s) + 1
         /\ Append(s, x)[Len(s) + 1] = x
         /\ \A i \in DOMAIN s : Append(s, x)[i] = s[i]
         /\ s \o <<x>> = Append(s, x) /\ s \o <<>> = s
OBVIOUS

\* What the session becomes once the batches are at the socket.
LEMMA BecomeFacts ==
  ASSUME NEW h \in Session, Become(h)
  PROVE  /\ server' \in Session /\ server'.flushed = <<>>
         /\ server'.codecs = h.codecs /\ server'.pendingBatch = h.pendingBatch
         /\ server'.startGameSent = h.startGameSent
         /\ server'.spawnSequenceSent = h.spawnSequenceSent
         /\ server'.dropped = h.dropped
         /\ downstream' = downstream \o h.flushed
         /\ upstream' = Tail(upstream) /\ client' = client
<1> DEFINE e == <<>>
<1>1. e \in Seq(Batches(ToClient))
  OBVIOUS
<1>2. server' = [h EXCEPT !.flushed = e] /\ server'.flushed = <<>>
  BY DEF Become, Session
<1> HIDE DEF e
<1>3. /\ server' \in Session
      /\ server'.codecs = h.codecs /\ server'.pendingBatch = h.pendingBatch
      /\ server'.startGameSent = h.startGameSent
      /\ server'.spawnSequenceSent = h.spawnSequenceSent
      /\ server'.dropped = h.dropped
  BY <1>1, <1>2 DEF Session
<1>4. QED
  BY <1>2, <1>3 DEF Become

\* Every rank is at most 9.
LEMMA NothingAboveNine ==
  ASSUME Typed
  PROVE  SentAtMost(9)
<1>1. \A p \in DOMAIN Rank : Rank[p] <= 9
  BY RankFacts DEF ToClient
<1>2. QED
  BY <1>1 DEF SentAtMost, AtMost

\* What was sent is followed by what is above it.
LEMMA AboveFollows ==
  ASSUME NEW rank \in {5, 7, 9}, NEW packets \in Seq(ToClient), NEW s \in Seq(ToClient),
         AtMost(rank, s), Above(rank, packets)
  PROVE  Before(s, packets)
<1> SUFFICES ASSUME NEW x \in Range(s), NEW y \in Range(packets),
                    x \in DOMAIN Rank, y \in DOMAIN Rank
             PROVE  Rank[x] < Rank[y] \/ (x = y /\ x = "ResourcePacksStack")
  BY DEF Before, Follows
<1>1. Rank[x] <= rank /\ (Rank[y] > rank \/ (y = "ResourcePacksStack" /\ rank = 5))
  BY DEF AtMost, Above
<1>2. Rank[x] \in Nat /\ Rank[y] \in Nat /\ (Rank[x] = 5 => x = "ResourcePacksStack")
  BY RankFacts DEF ToClient
<1>3. Rank["ResourcePacksStack"] = 5
  BY RankFacts
<1>4. QED
  BY <1>1, <1>2, <1>3

\* The server reads the next batch.
LEMMA ReadableStream ==
  ASSUME Typed, Streaming, upstream # <<>>
  PROVE  CanRead
<1>1. PICK p \in ToServer \ Greetings :
        upstream[1] = Batch(<<p>>, TRUE, server.codecs.encryptionEnabled,
                            server.codecs.recvPacketCounter + (1 - 1))
  BY TailFacts DEF Typed, Streaming, UpstreamAgrees
<1>2. server.codecs.recvPacketCounter + (1 - 1) = server.codecs.recvPacketCounter
  BY CodecsFacts DEF Typed
<1>3. Head(upstream) = upstream[1] /\ server.codecs.compressionEnabled = TRUE
  BY TailFacts DEF Typed, Streaming, ServerCodecs
<1>4. upstream[1].packets = <<p>>
  BY <1>1 DEF Batch
<1>5. QED
  BY <1>1, <1>2, <1>3, <1>4 DEF CanRead, Readable

\* The session a handler is given.
LEMMA MetFacts ==
  ASSUME Typed, Streaming, NEW s, s = Decrypted(server)
  PROVE  Met(s) /\ s.startGameSent = server.startGameSent
                /\ s.spawnSequenceSent = server.spawnSequenceSent
                /\ s.dropped = server.dropped
BY DecryptedFacts DEF Met, SameRest, Streaming, FlagsBound

\* The batch a handler sends, if it sends one.
LEMMA ProceedsSends ==
  ASSUME Typed, Streaming, upstream # <<>>, NEW s, s = Decrypted(server),
         NEW h, NEW packets, Proceeds(s, h, packets), Become(h)
  PROVE  /\ Typed'
         /\ server'.codecs.compressionEnabled = TRUE
         /\ server'.codecs.encryptionEnabled = server.codecs.encryptionEnabled
         /\ server.codecs.encryptionEnabled =>
              server'.codecs.recvPacketCounter = server.codecs.recvPacketCounter + 1
         /\ \/ /\ downstream' = downstream
               /\ server'.codecs.sendPacketCounter = server.codecs.sendPacketCounter
            \/ /\ downstream' = Append(downstream,
                    Batch(packets, TRUE, server.codecs.encryptionEnabled,
                          server.codecs.sendPacketCounter))
               /\ server.codecs.encryptionEnabled =>
                    server'.codecs.sendPacketCounter = server.codecs.sendPacketCounter + 1
<1> DEFINE e == server.codecs.encryptionEnabled
           n == server.codecs.sendPacketCounter
           b == Batch(packets, TRUE, e, n)
<1>1. /\ s \in Session /\ s.codecs \in Codecs /\ s.codecs.compressionEnabled = TRUE
      /\ s.codecs.encryptionEnabled = e /\ s.codecs.sendPacketCounter = n
      /\ s.codecs.recvPacketCounter = server.codecs.recvPacketCounter + (IF e THEN 1 ELSE 0)
  BY DecryptedFacts, CodecsFacts DEF SameRest, Streaming, ServerCodecs
<1>2. e \in BOOLEAN /\ n \in Nat /\ server.codecs.recvPacketCounter \in Nat
  BY CodecsFacts DEF Typed
<1>3. h \in Session /\ packets \in Seq(ToClient)
  BY DEF Proceeds
<1>4. /\ server' \in Session /\ server'.flushed = <<>> /\ server'.codecs = h.codecs
      /\ downstream' = downstream \o h.flushed
      /\ upstream' = Tail(upstream) /\ client' = client
  BY <1>3, BecomeFacts
<1>5. b \in Batches(ToClient)
  BY <1>2, <1>3, BatchType
<1>6. downstream \in Seq(Batches(ToClient))
  BY DEF Typed
<1>7. ~e => s.codecs.sendPacketCounter = 0 /\ s.codecs.recvPacketCounter = 0
  BY <1>1, <1>2 DEF Typed, IsCodecs
<1>8. \/ h.flushed = <<>> /\ h.codecs = s.codecs
      \/ /\ h.flushed = <<b>>
         /\ h.codecs = IF s.codecs.encryptionEnabled
                       THEN [s.codecs EXCEPT !.sendPacketCounter = @ + 1] ELSE s.codecs
  BY <1>1 DEF Proceeds, Flushed, SameCodecs
<1> HIDE DEF e, n, b
<1>9. CASE h.flushed = <<>> /\ h.codecs = s.codecs
  <2>1. downstream' = downstream /\ server'.codecs = s.codecs
    BY <1>4, <1>6, <1>9, <1>5, AppendFacts
  <2>2. IsCodecs(server'.codecs)
    BY <1>1, <1>7, <2>1 DEF IsCodecs, Codecs
  <2>3. Typed'
    BY <1>4, <2>1, <2>2, TailFacts DEF Typed
  <2>4. QED
    BY <1>1, <1>2, <2>1, <2>3 DEF e, n
<1>10. CASE /\ h.flushed = <<b>>
            /\ h.codecs = IF s.codecs.encryptionEnabled
                          THEN [s.codecs EXCEPT !.sendPacketCounter = @ + 1] ELSE s.codecs
  <2>1. downstream' = Append(downstream, b) /\ downstream' \in Seq(Batches(ToClient))
    BY <1>4, <1>5, <1>6, <1>10, AppendFacts
  <2>2. /\ server'.codecs \in Codecs
        /\ server'.codecs.compressionEnabled = TRUE /\ server'.codecs.encryptionEnabled = e
        /\ e => server'.codecs.sendPacketCounter = n + 1
        /\ ~e => server'.codecs.sendPacketCounter = 0
        /\ server'.codecs.recvPacketCounter = s.codecs.recvPacketCounter
    <3>1. PICK c \in Codecs : c = s.codecs
      BY <1>1
    <3>2. server'.codecs = IF c.encryptionEnabled THEN [c EXCEPT !.sendPacketCounter = @ + 1] ELSE c
      BY <1>4, <1>10, <3>1
    <3>3. /\ c.compressionEnabled = TRUE /\ c.encryptionEnabled = e
          /\ c.sendPacketCounter = n /\ (~c.encryptionEnabled => c.sendPacketCounter = 0)
      BY <1>1, <1>7, <3>1
    <3>4. CASE c.encryptionEnabled
      <4> DEFINE d == [c EXCEPT !.sendPacketCounter = @ + 1]
      <4>1. /\ d \in Codecs /\ d.compressionEnabled = c.compressionEnabled
            /\ d.encryptionEnabled = c.encryptionEnabled
            /\ d.sendPacketCounter = c.sendPacketCounter + 1
            /\ d.recvPacketCounter = c.recvPacketCounter
        BY DEF Codecs
      <4>2. server'.codecs = d
        BY <3>2, <3>4
      <4> HIDE DEF d
      <4>3. e
        BY <3>3, <3>4
      <4>4. QED
        BY <3>1, <3>3, <4>1, <4>2, <4>3, Zenon
    <3>5. CASE ~c.encryptionEnabled
      BY <1>2, <3>1, <3>2, <3>3, <3>5 DEF Codecs
    <3>6. QED
      BY <3>4, <3>5
  <2>3. IsCodecs(server'.codecs)
    BY <1>1, <1>7, <2>2 DEF IsCodecs, Codecs
  <2>4. Typed'
    BY <1>4, <2>1, <2>3, TailFacts DEF Typed
  <2>5. QED
    BY <1>1, <1>2, <2>1, <2>2, <2>4 DEF e, n, b
<1>11. QED
  BY <1>8, <1>9, <1>10

\* Without encryption a batch has no number.
LEMMA PlainBatch ==
  ASSUME NEW packets, NEW c, NEW n, NEW m
  PROVE  Batch(packets, c, FALSE, n) = Batch(packets, c, FALSE, m)
BY DEF Batch

\* Taking a batch moves the expected numbers by one.
LEMMA UpstreamTaken ==
  ASSUME Typed, Typed', UpstreamAgrees, upstream # <<>>, upstream' = Tail(upstream),
         server'.codecs.encryptionEnabled = server.codecs.encryptionEnabled,
         server.codecs.encryptionEnabled =>
           server'.codecs.recvPacketCounter = server.codecs.recvPacketCounter + 1
  PROVE  UpstreamAgrees'
<1> SUFFICES ASSUME NEW i \in DOMAIN upstream'
             PROVE  \E p \in ToServer \ Greetings :
                      upstream'[i] = Batch(<<p>>, TRUE, server'.codecs.encryptionEnabled,
                                           server'.codecs.recvPacketCounter + (i - 1))
  BY DEF UpstreamAgrees
<1>1. /\ upstream \in Seq(Batches(ToServer)) /\ server.codecs.encryptionEnabled \in BOOLEAN
      /\ server.codecs.recvPacketCounter \in Nat
  BY CodecsFacts DEF Typed
<1>2. upstream'[i] = upstream[i + 1] /\ i + 1 \in DOMAIN upstream /\ i \in Nat
  BY <1>1, TailFacts
<1>3. PICK p \in ToServer \ Greetings :
        upstream[i + 1] = Batch(<<p>>, TRUE, server.codecs.encryptionEnabled,
                                server.codecs.recvPacketCounter + ((i + 1) - 1))
  BY <1>2 DEF UpstreamAgrees
<1>4. CASE server.codecs.encryptionEnabled
  <2>1. server'.codecs.recvPacketCounter + (i - 1)
          = server.codecs.recvPacketCounter + ((i + 1) - 1)
    BY <1>1, <1>2, <1>4
  <2>2. QED
    BY <1>2, <1>3, <2>1
<1>5. CASE ~server.codecs.encryptionEnabled
  <2>1. server.codecs.encryptionEnabled = FALSE
    BY <1>1, <1>5
  <2>2. QED
    BY <1>2, <1>3, <2>1, PlainBatch
<1>6. QED
  BY <1>4, <1>5

\* What a step of the server does to downstream: nothing, or a batch more.
Adds(packets) ==
  \/ /\ downstream' = downstream
     /\ server'.codecs.sendPacketCounter = server.codecs.sendPacketCounter
  \/ /\ downstream' = Append(downstream,
          Batch(packets, TRUE, server.codecs.encryptionEnabled,
                server.codecs.sendPacketCounter))
     /\ server.codecs.encryptionEnabled =>
          server'.codecs.sendPacketCounter = server.codecs.sendPacketCounter + 1

\* The batch a client sends.
LEMMA ClientBatch ==
  ASSUME NEW packets \in Seq(ToClient), NEW e \in BOOLEAN, NEW n \in Nat
  PROVE  /\ Batch(packets, TRUE, e, n) \in Batches(ToClient)
         /\ Batch(packets, TRUE, e, n).packets = packets
BY DEF Batch, Batches

\* One batch more, or none.
LEMMA AddsFacts ==
  ASSUME Typed, NEW packets \in Seq(ToClient), Adds(packets)
  PROVE  /\ \A i \in DOMAIN downstream' :
              \/ i \in DOMAIN downstream /\ downstream'[i] = downstream[i]
              \/ /\ i = Len(downstream) + 1
                 /\ downstream'[i] = Batch(packets, TRUE, server.codecs.encryptionEnabled,
                                           server.codecs.sendPacketCounter)
                 /\ downstream'[i].packets = packets
<1> DEFINE b == Batch(packets, TRUE, server.codecs.encryptionEnabled,
                      server.codecs.sendPacketCounter)
<1>1. b \in Batches(ToClient) /\ b.packets = packets
  <2>1. server.codecs.encryptionEnabled \in BOOLEAN /\ server.codecs.sendPacketCounter \in Nat
    BY CodecsFacts DEF Typed
  <2>2. PICK e \in BOOLEAN, n \in Nat :
          e = server.codecs.encryptionEnabled /\ n = server.codecs.sendPacketCounter
    BY <2>1
  <2>3. Batch(packets, TRUE, e, n) \in Batches(ToClient)
        /\ Batch(packets, TRUE, e, n).packets = packets
    <3>1. packets \in Seq(ToClient) /\ TRUE \in BOOLEAN
      OBVIOUS
    <3>2. QED
      BY <3>1, ClientBatch
  <2>4. QED
    BY <2>2, <2>3
<1>2. downstream' = downstream \/ downstream' = Append(downstream, b)
  BY DEF Adds
<1>3. downstream \in Seq(Batches(ToClient))
  BY DEF Typed
<1> HIDE DEF b
<1>4. ASSUME NEW i \in DOMAIN downstream'
      PROVE  \/ i \in DOMAIN downstream /\ downstream'[i] = downstream[i]
             \/ i = Len(downstream) + 1 /\ downstream'[i] = b
  <2>1. CASE downstream' = downstream
    BY <2>1
  <2>2. CASE downstream' = Append(downstream, b)
    <3>1. /\ Len(downstream) \in Nat /\ DOMAIN downstream = 1..Len(downstream)
          /\ DOMAIN downstream' = 1..(Len(downstream) + 1)
          /\ downstream'[Len(downstream) + 1] = b
          /\ \A j \in DOMAIN downstream : downstream'[j] = downstream[j]
      BY <1>1, <1>3, <2>2, AppendFacts
    <3>2. QED
      BY <3>1
  <2>3. QED
    BY <1>2, <2>1, <2>2
<1>5. QED
  BY <1>1, <1>4 DEF b

\* Its place is the last one.
LEMMA AddsDomain ==
  ASSUME Typed, NEW packets \in Seq(ToClient), Adds(packets),
         NEW i \in DOMAIN downstream', NEW j \in 1..(i - 1)
  PROVE  j \in DOMAIN downstream' /\ j \in DOMAIN downstream
<1>1. downstream \in Seq(Batches(ToClient))
  BY DEF Typed
<1>2. Len(downstream) \in Nat /\ DOMAIN downstream = 1..Len(downstream)
  BY <1>1
<1>3. \/ DOMAIN downstream' = 1..Len(downstream)
      \/ DOMAIN downstream' = 1..(Len(downstream) + 1)
  <2>1. CASE downstream' = downstream
    BY <1>2, <2>1
  <2>2. ASSUME NEW b, downstream' = Append(downstream, b)
        PROVE  DOMAIN downstream' = 1..(Len(downstream) + 1)
    BY <1>1, <2>2
  <2>3. QED
    BY <2>1, <2>2 DEF Adds
<1>4. QED
  BY <1>2, <1>3

\* The batch that is sent has the number the client expects.
LEMMA DownstreamAdded ==
  ASSUME Typed, Typed', DownstreamAgrees, CountersAgree,
         NEW packets \in Seq(ToClient), Range(packets) \cap Switches = {}, Adds(packets),
         server'.codecs.encryptionEnabled = server.codecs.encryptionEnabled,
         client' = client
  PROVE  DownstreamAgrees'
<1> SUFFICES ASSUME NEW i \in DOMAIN downstream'
             PROVE  /\ Range(downstream'[i].packets) \cap Switches = {}
                    /\ downstream'[i] =
                         Batch(downstream'[i].packets, TRUE, server.codecs.encryptionEnabled,
                               client.codecs.recvPacketCounter + (i - 1))
  BY DEF DownstreamAgrees
<1>1. /\ server.codecs.encryptionEnabled \in BOOLEAN
      /\ client.codecs.recvPacketCounter \in Nat
  BY CodecsFacts DEF Typed, Peer, Codecs
<1>2. CASE i \in DOMAIN downstream /\ downstream'[i] = downstream[i]
  BY <1>2 DEF DownstreamAgrees
<1>3. CASE /\ i = Len(downstream) + 1
           /\ downstream'[i] = Batch(packets, TRUE, server.codecs.encryptionEnabled,
                                     server.codecs.sendPacketCounter)
           /\ downstream'[i].packets = packets
  <2>1. CASE server.codecs.encryptionEnabled
    <3>1. server.codecs.sendPacketCounter = client.codecs.recvPacketCounter + (i - 1)
      BY <1>1, <1>3, <2>1, AddsFacts DEF CountersAgree
    <3>2. QED
      BY <1>3, <3>1
  <2>2. CASE ~server.codecs.encryptionEnabled
    <3>1. server.codecs.encryptionEnabled = FALSE
      BY <1>1, <2>2
    <3>2. Batch(packets, TRUE, FALSE, server.codecs.sendPacketCounter)
            = Batch(packets, TRUE, FALSE, client.codecs.recvPacketCounter + (i - 1))
      BY PlainBatch
    <3>3. QED
      BY <1>3, <3>1, <3>2
  <2>3. QED
    BY <2>1, <2>2
<1>4. QED
  BY <1>2, <1>3, AddsFacts

\* Arithmetic of the counters.
LEMMA SumFacts ==
  ASSUME NEW a \in Nat, NEW b \in Nat
  PROVE  (a + b) + 1 = a + (b + 1)
OBVIOUS

\* The counters move with the batches.
LEMMA CountersMove ==
  ASSUME Typed, Typed', CountersAgree, NEW packets \in Seq(ToClient), Adds(packets),
         upstream # <<>>, upstream' = Tail(upstream), client' = client,
         server'.codecs.encryptionEnabled = server.codecs.encryptionEnabled,
         server.codecs.encryptionEnabled =>
           server'.codecs.recvPacketCounter = server.codecs.recvPacketCounter + 1
  PROVE  CountersAgree'
<1> SUFFICES ASSUME server.codecs.encryptionEnabled
             PROVE  /\ client.codecs.sendPacketCounter
                         = server'.codecs.recvPacketCounter + Len(upstream')
                    /\ server'.codecs.sendPacketCounter
                         = client.codecs.recvPacketCounter + Len(downstream')
  BY DEF CountersAgree
<1>1. /\ server.codecs.recvPacketCounter \in Nat /\ server.codecs.sendPacketCounter \in Nat
      /\ client.codecs.recvPacketCounter \in Nat
  BY CodecsFacts DEF Typed, Peer, Codecs
<1>2. Len(upstream') = Len(upstream) - 1 /\ Len(upstream) \in Nat
  BY TailFacts DEF Typed
<1>3. \/ /\ Len(downstream') = Len(downstream)
         /\ server'.codecs.sendPacketCounter = server.codecs.sendPacketCounter
      \/ /\ Len(downstream') = Len(downstream) + 1
         /\ server'.codecs.sendPacketCounter = server.codecs.sendPacketCounter + 1
  <2>1. CASE downstream' = downstream
             /\ server'.codecs.sendPacketCounter = server.codecs.sendPacketCounter
    BY <2>1
  <2>2. CASE downstream' = Append(downstream,
               Batch(packets, TRUE, server.codecs.encryptionEnabled,
                     server.codecs.sendPacketCounter))
             /\ server'.codecs.sendPacketCounter = server.codecs.sendPacketCounter + 1
    <3>1. Len(downstream') = Len(downstream) + 1
      BY <2>2 DEF Typed
    <3>2. QED
      BY <2>2, <3>1
  <2>3. QED
    BY <2>1, <2>2 DEF Adds
<1>4. Len(downstream) \in Nat
  BY DEF Typed
<1>5. QED
  <2>1. /\ client.codecs.sendPacketCounter = server.codecs.recvPacketCounter + Len(upstream)
        /\ server.codecs.sendPacketCounter = client.codecs.recvPacketCounter + Len(downstream)
        /\ server'.codecs.recvPacketCounter = server.codecs.recvPacketCounter + 1
    BY DEF CountersAgree
  <2>2. client.codecs.sendPacketCounter = server'.codecs.recvPacketCounter + Len(upstream')
    BY <1>1, <1>2, <2>1
  <2>3. server'.codecs.sendPacketCounter = client.codecs.recvPacketCounter + Len(downstream')
    <3>1. CASE /\ Len(downstream') = Len(downstream)
               /\ server'.codecs.sendPacketCounter = server.codecs.sendPacketCounter
      BY <2>1, <3>1
    <3>2. CASE /\ Len(downstream') = Len(downstream) + 1
               /\ server'.codecs.sendPacketCounter = server.codecs.sendPacketCounter + 1
      <4>1. server'.codecs.sendPacketCounter
              = (client.codecs.recvPacketCounter + Len(downstream)) + 1
        BY <2>1, <3>2
      <4>2. (client.codecs.recvPacketCounter + Len(downstream)) + 1
              = client.codecs.recvPacketCounter + (Len(downstream) + 1)
        BY <1>1, <1>4, SumFacts
      <4>3. QED
        BY <3>2, <4>1, <4>2
    <3>3. QED
      BY <1>3, <3>1, <3>2
  <2>4. QED
    BY <2>2, <2>3

\* What is sent may follow all that was sent before.
LEMMA OrderKept ==
  ASSUME Typed, SentInOrder, NEW packets \in Seq(ToClient), Adds(packets), InOrder(packets),
         NEW rank \in {5, 7, 9}, SentAtMost(rank), Above(rank, packets), client' = client
  PROVE  SentInOrder'
<1>1. client.seen \in Seq(ToClient) /\ downstream \in Seq(Batches(ToClient))
  BY DEF Typed, Peer
<1>2. Before(client.seen, packets)
  BY <1>1, AboveFollows DEF SentAtMost
<1>3. \A i \in DOMAIN downstream : Before(downstream[i].packets, packets)
  BY <1>1, BatchFacts, AboveFollows DEF SentAtMost
<1>4. \A i \in DOMAIN downstream' :
        \/ i \in DOMAIN downstream /\ downstream'[i] = downstream[i]
        \/ i = Len(downstream) + 1 /\ downstream'[i].packets = packets
  BY AddsFacts
<1>5. DOMAIN downstream = 1..Len(downstream) /\ Len(downstream) \in Nat
  BY <1>1
<1>6. \A i \in DOMAIN downstream' :
        InOrder(downstream'[i].packets) /\ Before(client.seen, downstream'[i].packets)
  BY <1>2, <1>4 DEF SentInOrder
<1>7. ASSUME NEW i \in DOMAIN downstream', NEW j \in 1..(i - 1)
      PROVE  Before(downstream'[j].packets, downstream'[i].packets)
  <2>1. j \in DOMAIN downstream /\ downstream'[j] = downstream[j]
    BY <1>4, <1>5, AddsDomain
  <2>2. QED
    BY <1>3, <1>4, <2>1 DEF SentInOrder
<1>8. QED
  BY <1>6, <1>7 DEF SentInOrder

\* The flags bound what is sent behind it.
LEMMA BoundKept ==
  ASSUME Typed, NEW packets \in Seq(ToClient), Adds(packets), NEW rank, SentAtMost(rank),
         AtMost(rank, packets), client' = client
  PROVE  SentAtMost(rank)'
<1>1. \A i \in DOMAIN downstream' : AtMost(rank, downstream'[i].packets)
  <2> SUFFICES ASSUME NEW i \in DOMAIN downstream' PROVE AtMost(rank, downstream'[i].packets)
    OBVIOUS
  <2>1. \/ i \in DOMAIN downstream /\ downstream'[i] = downstream[i]
        \/ downstream'[i].packets = packets
    BY AddsFacts
  <2>2. CASE i \in DOMAIN downstream /\ downstream'[i] = downstream[i]
    BY <2>2 DEF SentAtMost
  <2>3. CASE downstream'[i].packets = packets
    BY <2>3
  <2>4. QED
    BY <2>1, <2>2, <2>3
<1>2. QED
  BY <1>1 DEF SentAtMost

\* Whatever handler takes the batch, both sides go on streaming.
LEMMA StreamingAnswered ==
  ASSUME Typed, CodecsAgree, Streaming, upstream # <<>>, NEW s, s = Decrypted(server),
         NEW h, Become(h), \E packets : Proceeds(s, h, packets)
  PROVE  Typed' /\ CodecsAgree' /\ Streaming'
<1>1. PICK packets : Proceeds(s, h, packets)
  OBVIOUS
<1>2. /\ h \in Session /\ packets \in Seq(ToClient) /\ Range(packets) \cap Switches = {}
      /\ InOrder(packets)
  BY <1>1 DEF Proceeds
<1>3. /\ Typed'
      /\ server'.codecs.compressionEnabled = TRUE
      /\ server'.codecs.encryptionEnabled = server.codecs.encryptionEnabled
      /\ server.codecs.encryptionEnabled =>
           server'.codecs.recvPacketCounter = server.codecs.recvPacketCounter + 1
      /\ Adds(packets)
  BY <1>1, ProceedsSends DEF Adds
<1>4. /\ server'.pendingBatch = h.pendingBatch
      /\ server'.startGameSent = h.startGameSent
      /\ server'.spawnSequenceSent = h.spawnSequenceSent /\ server'.dropped = h.dropped
      /\ upstream' = Tail(upstream) /\ client' = client
  BY <1>2, BecomeFacts
<1>5. /\ s.startGameSent = server.startGameSent /\ s.dropped = server.dropped
      /\ s.spawnSequenceSent = server.spawnSequenceSent
  BY MetFacts
<1>6. CodecsAgree'
  BY <1>1, <1>4, <1>5 DEF CodecsAgree, Proceeds
<1>7. ServerCodecs(TRUE, server.codecs.encryptionEnabled)'
  BY <1>3 DEF ServerCodecs
<1>8. ClientCodecs(TRUE, server.codecs.encryptionEnabled)'
  BY <1>3, <1>4 DEF ClientCodecs, Streaming
<1>9. Range(server'.pendingBatch) \subseteq {"ChunkRadiusUpdated"}
  BY <1>1, <1>4 DEF Proceeds
<1>10. GreetingsSaid'
  BY <1>4 DEF Streaming, GreetingsSaid, Seen
<1>11. UpstreamAgrees'
  BY <1>3, <1>4, UpstreamTaken DEF Streaming
<1>12. DownstreamAgrees'
  BY <1>2, <1>3, <1>4, DownstreamAdded DEF Streaming
<1>13. CountersAgree'
  BY <1>2, <1>3, <1>4, CountersMove DEF Streaming
<1>14. SentInOrder'
  <2>1. SentInOrder
    BY DEF Streaming
  <2>2. CASE Above(9, packets)
    BY <1>2, <1>3, <1>4, <2>1, <2>2, NothingAboveNine, OrderKept
  <2>3. CASE ~s.startGameSent /\ Above(5, packets)
    <3>1. SentAtMost(5)
      BY <1>5, <2>3 DEF Streaming, FlagsBound
    <3>2. QED
      BY <1>2, <1>3, <1>4, <2>1, <2>3, <3>1, OrderKept
  <2>4. CASE ~s.spawnSequenceSent /\ Above(7, packets)
    <3>1. SentAtMost(7)
      BY <1>5, <2>4 DEF Streaming, FlagsBound
    <3>2. QED
      BY <1>2, <1>3, <1>4, <2>1, <2>4, <3>1, OrderKept
  <2>5. QED
    BY <1>1, <2>2, <2>3, <2>4 DEF Proceeds
<1>15. FlagsBound'
  <2>1. ASSUME ~server'.startGameSent PROVE SentAtMost(5)'
    <3>1. SentAtMost(5) /\ AtMost(5, packets)
      BY <1>1, <1>4, <1>5, <2>1 DEF Proceeds, Streaming, FlagsBound
    <3>2. QED
      BY <1>2, <1>3, <1>4, <3>1, BoundKept
  <2>2. ASSUME ~server'.spawnSequenceSent PROVE SentAtMost(7)'
    <3>1. SentAtMost(7) /\ AtMost(7, packets)
      BY <1>1, <1>4, <1>5, <2>2 DEF Proceeds, Streaming, FlagsBound
    <3>2. QED
      BY <1>2, <1>3, <1>4, <3>1, BoundKept
  <2>3. server'.spawnSequenceSent => server'.startGameSent
    BY <1>1, <1>4 DEF Proceeds
  <2>4. ASSUME NEW i \in DOMAIN upstream', upstream'[i].packets = <<"RequestChunkRadius">>
        PROVE  server'.startGameSent
    <3>1. i + 1 \in DOMAIN upstream /\ upstream[i + 1] = upstream'[i]
      BY <1>4, TailFacts DEF Typed
    <3>2. server.startGameSent
      BY <2>4, <3>1 DEF Streaming, FlagsBound
    <3>3. QED
      BY <1>1, <1>4, <1>5, <3>2 DEF Proceeds
  <2>5. QED
    BY <2>1, <2>2, <2>3, <2>4 DEF FlagsBound
<1>16. server'.codecs.encryptionEnabled = server.codecs.encryptionEnabled
  BY <1>3
<1>17. ServerCodecs(TRUE, server.codecs.encryptionEnabled)'
         /\ ClientCodecs(TRUE, server.codecs.encryptionEnabled)'
  BY <1>7, <1>8
<1>18. Streaming'
  BY <1>9, <1>10, <1>11, <1>12, <1>13, <1>14, <1>15, <1>17 DEF Streaming
<1>19. QED
  BY <1>3, <1>6, <1>18

\* A handler that is given the next batch.
LEMMA Handled ==
  ASSUME Typed, Streaming, upstream # <<>>, NEW h, Handle(h)
  PROVE  Become(h)
BY ReadableStream DEF Handle

\* No greeting comes while the batches stream.
LEMMA NextInStream ==
  ASSUME Typed, Streaming, NEW p, Receive(p)
  PROVE  /\ upstream # <<>> /\ p \in ToServer \ Greetings
         /\ p = "RequestChunkRadius" => server.startGameSent
<1>1. upstream # <<>> /\ Head(upstream).packets = <<p>>
  BY DEF Receive
<1>2. upstream[1].packets = <<p>> /\ 1 \in DOMAIN upstream
  BY <1>1, TailFacts DEF Typed
<1>3. PICK q \in ToServer \ Greetings :
        upstream[1] = Batch(<<q>>, TRUE, server.codecs.encryptionEnabled,
                            server.codecs.recvPacketCounter + (1 - 1))
  BY <1>2 DEF Streaming, UpstreamAgrees
<1>4. upstream[1].packets = <<q>>
  BY <1>3 DEF Batch
<1>5. p = q
  BY <1>2, <1>4
<1>6. p = "RequestChunkRadius" => server.startGameSent
  BY <1>2 DEF Streaming, FlagsBound
<1>7. QED
  BY <1>1, <1>3, <1>5, <1>6

\* The server handles a batch of the stream.
LEMMA StreamingServerStep ==
  ASSUME Typed, CodecsAgree, Streaming, ServerStep
  PROVE  Typed' /\ CodecsAgree' /\ Streaming'
<1>1. PICK s : s = Decrypted(server)
  OBVIOUS
<1>2. Met(s) /\ s.startGameSent = server.startGameSent
  BY <1>1, MetFacts
<1>3. ASSUME NEW h, upstream # <<>>, Handle(h), \E packets : Proceeds(s, h, packets)
      PROVE  Typed' /\ CodecsAgree' /\ Streaming'
  BY <1>1, <1>3, Handled, StreamingAnswered
<1>4. ~RequestNetworkSettings /\ ~Login /\ ~ClientToServerHandshake
  BY NextInStream DEF RequestNetworkSettings, Login, ClientToServerHandshake, Greetings
<1>5. CASE HaveAllPacks
  <2>1. upstream # <<>> /\ Handle(handleHaveAllPacks(s))
    BY <1>1, <1>5 DEF HaveAllPacks, Receive
  <2>2. PICK h : h = handleHaveAllPacks(s)
    OBVIOUS
  <2>3. QED
    BY <1>2, <1>3, <2>1, <2>2, HaveAllPacksProceeds
<1>6. CASE Completed
  <2>1. upstream # <<>> /\ Handle(completeResourcePackStageAndStartGame(s))
    BY <1>1, <1>6 DEF Completed, Receive
  <2>2. PICK h : h = completeResourcePackStageAndStartGame(s)
    OBVIOUS
  <2>3. QED
    BY <1>2, <1>3, <2>1, <2>2, CompletedProceeds
<1>7. CASE RequestChunkRadius
  <2>1. /\ upstream # <<>> /\ Handle(handleRequestChunkRadius(s))
        /\ server.startGameSent
    BY <1>1, <1>7, NextInStream DEF RequestChunkRadius
  <2>2. PICK h : h = handleRequestChunkRadius(s)
    OBVIOUS
  <2>3. QED
    BY <1>2, <1>3, <2>1, <2>2, RequestChunkRadiusProceeds
<1>8. CASE SetLocalPlayerAsInitialised
  <2>1. upstream # <<>> /\ Handle(sendSpawnSequencePhase2(s))
    BY <1>1, <1>8 DEF SetLocalPlayerAsInitialised, Receive
  <2>2. PICK h : h = sendSpawnSequencePhase2(s)
    OBVIOUS
  <2>3. QED
    BY <1>2, <1>3, <2>1, <2>2, FlagsProceed
<1>9. CASE PlayerAuthInput
  <2>1. upstream # <<>> /\ Handle(handlePlayerAuthInput(s))
    BY <1>1, <1>9 DEF PlayerAuthInput, Receive
  <2>2. PICK h : h = handlePlayerAuthInput(s)
    OBVIOUS
  <2>3. QED
    BY <1>2, <1>3, <2>1, <2>2, FlagsProceed
<1>10. CASE TickSync
  <2>1. upstream # <<>> /\ Handle(handleTickSync(s))
    BY <1>1, <1>10 DEF TickSync, Receive
  <2>2. PICK h : h = handleTickSync(s)
    OBVIOUS
  <2>3. QED
    BY <1>2, <1>3, <2>1, <2>2, TickSyncProceeds
<1>11. QED
  BY <1>4, <1>5, <1>6, <1>7, <1>8, <1>9, <1>10 DEF ServerStep

-----------------------------------------------------------------------------
(* The client. *)

\* What a sending client changes.
LEMMA ClientSendFacts ==
  ASSUME Typed, NEW p \in ToServer, ClientSend(p)
  PROVE  LET c == client.codecs
             b == Batch(<<p>>, c.compressionEnabled, c.encryptionEnabled, c.sendPacketCounter)
         IN  /\ Typed' /\ Due(p)
             /\ p \in Greetings => client.said[p] = 0
             /\ client'.seen = client.seen /\ client'.connected = client.connected
             /\ client'.said = [client.said EXCEPT ![p] = client.said[p] + 1]
             /\ client'.codecs.compressionEnabled = c.compressionEnabled
             /\ client'.codecs.encryptionEnabled = c.encryptionEnabled
             /\ client'.codecs.recvPacketCounter = c.recvPacketCounter
             /\ client'.codecs.sendPacketCounter
                  = c.sendPacketCounter + (IF c.encryptionEnabled THEN 1 ELSE 0)
             /\ upstream' = Append(upstream, b) /\ UNCHANGED <<server, downstream>>
<1> DEFINE c == client.codecs
           b == Batch(<<p>>, c.compressionEnabled, c.encryptionEnabled, c.sendPacketCounter)
           d == IF c.encryptionEnabled THEN [c EXCEPT !.sendPacketCounter = @ + 1] ELSE c
           t == [client.said EXCEPT ![p] = client.said[p] + 1]
<1>1. client \in Peer /\ c \in Codecs /\ client.said \in [ToServer -> 0..(Repeats + 1)]
  BY DEF Typed, Peer
<1>2. /\ upstream' = Append(upstream, b) /\ UNCHANGED <<server, downstream>> /\ Due(p)
      /\ client.said[p] < (IF p \in Repeatable THEN Repeats + 1
                           ELSE IF p \in Optional THEN Repeats ELSE 1)
      /\ client' = [client EXCEPT !.said[p] = @ + 1,
                       !.codecs.sendPacketCounter =
                           IF c.encryptionEnabled THEN @ + 1 ELSE @]
  BY DEF ClientSend
<1>3. /\ d \in Codecs /\ d.compressionEnabled = c.compressionEnabled
      /\ d.encryptionEnabled = c.encryptionEnabled
      /\ d.recvPacketCounter = c.recvPacketCounter
      /\ d.sendPacketCounter
           = c.sendPacketCounter + (IF c.encryptionEnabled THEN 1 ELSE 0)
  BY <1>1 DEF Codecs
<1>4. client' = [client EXCEPT !.said = t, !.codecs = d]
  BY <1>1, <1>2 DEF Peer, Codecs
<1>5. t \in [ToServer -> 0..(Repeats + 1)] /\ (p \in Greetings => client.said[p] = 0)
  <2>1. Repeats \in Nat \ {0} /\ client.said[p] \in Nat
    BY <1>1, IdentityAssumption
  <2>2. client.said[p] < Repeats + 1 /\ (p \in Greetings => client.said[p] < 1)
    BY <1>2, <2>1 DEF Greetings, Repeatable, Optional
  <2>3. QED
    BY <1>1, <2>1, <2>2
<1>6. b \in Batches(ToServer)
  <2>1. <<p>> \in Seq(ToServer)
    OBVIOUS
  <2>2. /\ c.compressionEnabled \in BOOLEAN /\ c.encryptionEnabled \in BOOLEAN
        /\ c.sendPacketCounter \in Nat
    BY <1>1 DEF Codecs
  <2>3. QED
    BY <2>1, <2>2 DEF Batch, Batches
<1> HIDE DEF c, b, d, t
<1>7. /\ client' \in Peer /\ client'.seen = client.seen /\ client'.said = t
      /\ client'.connected = client.connected /\ client'.codecs = d
  BY <1>1, <1>3, <1>4, <1>5 DEF Peer
<1>8. IsCodecs(client'.codecs)
  <2>1. IsCodecs(c)
    BY DEF Typed, c
  <2>2. QED
    BY <1>3, <1>7, <2>1 DEF IsCodecs, Codecs
<1>9. upstream' \in Seq(Batches(ToServer))
  BY <1>2, <1>6 DEF Typed
<1>10. Typed'
  BY <1>2, <1>7, <1>8, <1>9 DEF Typed
<1>11. QED
  BY <1>2, <1>3, <1>5, <1>7, <1>10 DEF b, c, t

\* The client sends a batch of the stream.
LEMMA StreamingClientSend ==
  ASSUME Typed, CodecsAgree, Streaming, NEW p \in ToServer, ClientSend(p)
  PROVE  Typed' /\ CodecsAgree' /\ Streaming'
<1> DEFINE e == server.codecs.encryptionEnabled
           n == client.codecs.sendPacketCounter
           b == Batch(<<p>>, TRUE, e, n)
<1>1. /\ Typed' /\ Due(p) /\ (p \in Greetings => client.said[p] = 0)
      /\ client'.seen = client.seen /\ client'.connected = client.connected
      /\ client'.said = [client.said EXCEPT ![p] = client.said[p] + 1]
      /\ client'.codecs.compressionEnabled = TRUE
      /\ client'.codecs.encryptionEnabled = e
      /\ client'.codecs.recvPacketCounter = client.codecs.recvPacketCounter
      /\ client'.codecs.sendPacketCounter = n + (IF e THEN 1 ELSE 0)
      /\ upstream' = Append(upstream, b) /\ UNCHANGED <<server, downstream>>
  BY ClientSendFacts DEF Streaming, ClientCodecs
<1>2. /\ e \in BOOLEAN /\ n \in Nat /\ client.codecs.recvPacketCounter \in Nat
      /\ server.codecs.recvPacketCounter \in Nat
      /\ client.said \in [ToServer -> 0..(Repeats + 1)]
      /\ upstream \in Seq(Batches(ToServer)) /\ ~e => n = 0
  BY CodecsFacts DEF Typed, Peer, Codecs, IsCodecs, Streaming, ClientCodecs
<1>3. p \notin Greetings
  <2> SUFFICES ASSUME p \in Greetings PROVE FALSE
    OBVIOUS
  <2>1. p = "ClientToServerHandshake" /\ ~Seen("ServerToClientHandshake")
    BY <1>1 DEF Streaming, GreetingsSaid
  <2>2. QED
    BY <1>1, <2>1 DEF Due
<1>4. Len(upstream) \in Nat /\ DOMAIN upstream = 1..Len(upstream)
  BY <1>2
<1> HIDE DEF b
<1>5. /\ DOMAIN upstream' = 1..(Len(upstream) + 1) /\ Len(upstream') = Len(upstream) + 1
      /\ \A i \in DOMAIN upstream : upstream'[i] = upstream[i]
      /\ upstream'[Len(upstream) + 1] = b
  BY <1>1, <1>2
<1>6. \A i \in DOMAIN upstream' : \/ i \in DOMAIN upstream /\ upstream'[i] = upstream[i]
                                  \/ i = Len(upstream) + 1 /\ upstream'[i] = b
  BY <1>4, <1>5
<1>7. UpstreamAgrees'
  <2> SUFFICES ASSUME NEW i \in DOMAIN upstream'
               PROVE  \E q \in ToServer \ Greetings :
                        upstream'[i] = Batch(<<q>>, TRUE, e,
                                             server.codecs.recvPacketCounter + (i - 1))
    BY <1>1 DEF UpstreamAgrees
  <2>1. CASE i \in DOMAIN upstream /\ upstream'[i] = upstream[i]
    BY <2>1 DEF Streaming, UpstreamAgrees
  <2>2. CASE i = Len(upstream) + 1 /\ upstream'[i] = b
    <3>1. b = Batch(<<p>>, TRUE, e, server.codecs.recvPacketCounter + (i - 1))
      <4>1. CASE e
        <5>1. n = server.codecs.recvPacketCounter + Len(upstream)
          BY <4>1 DEF Streaming, CountersAgree
        <5>2. n = server.codecs.recvPacketCounter + (i - 1)
          BY <1>4, <2>2, <5>1
        <5>3. QED
          BY <5>2 DEF b
      <4>2. CASE ~e
        <5>1. e = FALSE
          BY <1>2, <4>2
        <5>2. Batch(<<p>>, TRUE, FALSE, n)
                = Batch(<<p>>, TRUE, FALSE, server.codecs.recvPacketCounter + (i - 1))
          BY PlainBatch
        <5>3. QED
          BY <5>1, <5>2 DEF b
      <4>3. QED
        BY <4>1, <4>2
    <3>2. QED
      BY <1>3, <2>2, <3>1
  <2>3. QED
    BY <1>6, <2>1, <2>2
<1>8. CountersAgree'
  <2> SUFFICES ASSUME e
               PROVE  /\ client'.codecs.sendPacketCounter
                           = server.codecs.recvPacketCounter + Len(upstream')
                      /\ server.codecs.sendPacketCounter
                           = client'.codecs.recvPacketCounter + Len(downstream)
    BY <1>1 DEF CountersAgree
  <2>1. /\ n = server.codecs.recvPacketCounter + Len(upstream)
        /\ server.codecs.sendPacketCounter = client.codecs.recvPacketCounter + Len(downstream)
    BY DEF Streaming, CountersAgree
  <2>2. (server.codecs.recvPacketCounter + Len(upstream)) + 1
          = server.codecs.recvPacketCounter + (Len(upstream) + 1)
    BY <1>2, <1>4, SumFacts
  <2>3. QED
    BY <1>1, <1>5, <2>1, <2>2
<1>9. DownstreamAgrees' /\ SentInOrder'
  BY <1>1 DEF Streaming, DownstreamAgrees, SentInOrder
<1>10. GreetingsSaid'
  BY <1>1, <1>2, <1>3 DEF Streaming, GreetingsSaid, Seen, Greetings, ToServer
<1>11. FlagsBound'
  <2>1. p = "RequestChunkRadius" => server.startGameSent
    <3> SUFFICES ASSUME p = "RequestChunkRadius", ~server.startGameSent PROVE FALSE
      BY DEF Typed, Session
    <3>1. "StartGame" \in Range(client.seen)
      BY <1>1 DEF Due, Seen, Range
    <3>2. SentAtMost(5)
      BY DEF Streaming, FlagsBound
    <3>3. QED
      BY <3>1, <3>2, RankFacts DEF SentAtMost, AtMost, ToClient
  <2>2. b.packets = <<p>>
    BY DEF b, Batch
  <2>3. ASSUME NEW i \in DOMAIN upstream', upstream'[i].packets = <<"RequestChunkRadius">>
        PROVE  server.startGameSent
    <3>1. CASE i \in DOMAIN upstream /\ upstream'[i] = upstream[i]
      BY <2>3, <3>1 DEF Streaming, FlagsBound
    <3>2. CASE upstream'[i] = b
      BY <2>1, <2>2, <2>3, <3>2
    <3>3. QED
      BY <1>6, <3>1, <3>2
  <2>4. /\ ~server.startGameSent => SentAtMost(5)
        /\ ~server.spawnSequenceSent => SentAtMost(7)
        /\ server.spawnSequenceSent => server.startGameSent
    BY DEF Streaming, FlagsBound
  <2>5. SentAtMost(5)' = SentAtMost(5) /\ SentAtMost(7)' = SentAtMost(7)
    BY <1>1 DEF SentAtMost
  <2>6. QED
    BY <1>1, <2>3, <2>4, <2>5 DEF FlagsBound
<1>12. /\ ServerCodecs(TRUE, server.codecs.encryptionEnabled)'
       /\ ClientCodecs(TRUE, server.codecs.encryptionEnabled)'
       /\ Range(server'.pendingBatch) \subseteq {"ChunkRadiusUpdated"}
  BY <1>1 DEF Streaming, ServerCodecs, ClientCodecs
<1>13. Streaming'
  BY <1>7, <1>8, <1>9, <1>10, <1>11, <1>12 DEF Streaming
<1>14. CodecsAgree'
  BY <1>1 DEF CodecsAgree
<1>15. QED
  BY <1>1, <1>13, <1>14

\* What a client changes that reads a batch.
LEMMA ClientReceiveFacts ==
  ASSUME Typed, ClientReceive,
         Readable(downstream[1], client.codecs.compressionEnabled,
                  client.codecs.encryptionEnabled, client.codecs.recvPacketCounter)
  PROVE  LET c == client.codecs
             packets == downstream[1].packets
         IN  /\ Typed' /\ downstream # <<>>
             /\ client'.seen = client.seen \o packets /\ client'.said = client.said
             /\ client'.connected = client.connected
             /\ client'.codecs.compressionEnabled
                  = (c.compressionEnabled \/ "NetworkSettings" \in Range(packets))
             /\ client'.codecs.encryptionEnabled
                  = (c.encryptionEnabled \/ "ServerToClientHandshake" \in Range(packets))
             /\ client'.codecs.sendPacketCounter = c.sendPacketCounter
             /\ client'.codecs.recvPacketCounter
                  = c.recvPacketCounter + (IF c.encryptionEnabled THEN 1 ELSE 0)
             /\ downstream' = Tail(downstream) /\ UNCHANGED <<server, upstream>>
<1> DEFINE c == client.codecs
           packets == downstream[1].packets
           compressed == c.compressionEnabled \/ Contains(packets, "NetworkSettings")
           encrypted  == c.encryptionEnabled \/ Contains(packets, "ServerToClientHandshake")
           r == IF c.encryptionEnabled THEN c.recvPacketCounter + 1 ELSE c.recvPacketCounter
           d == [c EXCEPT !.recvPacketCounter = r, !.compressionEnabled = compressed,
                          !.encryptionEnabled = encrypted]
           t == client.seen \o packets
<1>1. /\ client \in Peer /\ c \in Codecs /\ client.seen \in Seq(ToClient) /\ IsCodecs(c)
      /\ downstream \in Seq(Batches(ToClient))
  BY DEF Typed, Peer
<1>2. downstream # <<>> /\ Head(downstream) = downstream[1] /\ 1 \in DOMAIN downstream
  BY <1>1, TailFacts DEF ClientReceive
<1>3. packets \in Seq(ToClient)
  BY <1>1, <1>2, BatchFacts
<1>4. /\ client' = [client EXCEPT
                      !.seen = @ \o packets,
                      !.codecs.recvPacketCounter = IF c.encryptionEnabled THEN @ + 1 ELSE @,
                      !.codecs.compressionEnabled = @ \/ Contains(packets, "NetworkSettings"),
                      !.codecs.encryptionEnabled =
                          @ \/ Contains(packets, "ServerToClientHandshake")]
      /\ downstream' = Tail(downstream) /\ UNCHANGED <<server, upstream>>
  BY <1>2 DEF ClientReceive
<1>5. client' = [client EXCEPT !.seen = t, !.codecs = d]
  BY <1>1, <1>4 DEF Peer, Codecs
<1>6. compressed \in BOOLEAN /\ encrypted \in BOOLEAN /\ r \in Nat
  BY <1>1 DEF Codecs
<1>7. \A p : Contains(packets, p) <=> p \in Range(packets)
  BY <1>3 DEF Contains, Range
<1> HIDE DEF compressed, encrypted, r
<1>8. /\ d \in Codecs /\ d.compressionEnabled = compressed /\ d.encryptionEnabled = encrypted
      /\ d.recvPacketCounter = r /\ d.sendPacketCounter = c.sendPacketCounter
  BY <1>1, <1>6 DEF Codecs
<1>9. t \in Seq(ToClient)
  BY <1>1, <1>3
<1> HIDE DEF c, d, t, packets
<1>10. /\ client' \in Peer /\ client'.seen = t /\ client'.said = client.said
       /\ client'.connected = client.connected /\ client'.codecs = d
  BY <1>1, <1>5, <1>8, <1>9 DEF Peer
<1>11. /\ compressed = (c.compressionEnabled \/ "NetworkSettings" \in Range(packets))
       /\ encrypted = (c.encryptionEnabled \/ "ServerToClientHandshake" \in Range(packets))
  BY <1>7 DEF compressed, encrypted
<1>12. r = c.recvPacketCounter + (IF c.encryptionEnabled THEN 1 ELSE 0)
  BY <1>1 DEF r, Codecs
<1>13. ~c.encryptionEnabled => c.sendPacketCounter = 0 /\ c.recvPacketCounter = 0
  BY <1>1 DEF IsCodecs
<1>14. IsCodecs(d)
  <2>1. ASSUME ~d.encryptionEnabled PROVE d.sendPacketCounter = 0 /\ d.recvPacketCounter = 0
    <3>1. ~c.encryptionEnabled
      BY <1>8, <1>11, <2>1
    <3>2. QED
      BY <1>8, <1>13, <3>1 DEF r
  <2>2. QED
    BY <1>8, <2>1 DEF IsCodecs, Codecs
<1>15. downstream' \in Seq(Batches(ToClient))
  BY <1>1, <1>2, <1>4, TailFacts
<1>16. Typed'
  BY <1>4, <1>10, <1>14, <1>15 DEF Typed
<1>17. /\ client'.codecs.compressionEnabled
            = (c.compressionEnabled \/ "NetworkSettings" \in Range(packets))
       /\ client'.codecs.encryptionEnabled
            = (c.encryptionEnabled \/ "ServerToClientHandshake" \in Range(packets))
       /\ client'.codecs.sendPacketCounter = c.sendPacketCounter
       /\ client'.codecs.recvPacketCounter
            = c.recvPacketCounter + (IF c.encryptionEnabled THEN 1 ELSE 0)
  BY <1>8, <1>10, <1>11, <1>12, Zenon
<1>18. QED
  BY <1>2, <1>4, <1>10, <1>16, <1>17 DEF c, t, packets

\* The client reads a batch of the stream.
LEMMA StreamingClientReceive ==
  ASSUME Typed, CodecsAgree, Streaming, ClientReceive
  PROVE  Typed' /\ CodecsAgree' /\ Streaming'
<1> DEFINE e == server.codecs.encryptionEnabled
           r == client.codecs.recvPacketCounter
           packets == downstream[1].packets
<1>1. /\ downstream \in Seq(Batches(ToClient)) /\ downstream # <<>>
      /\ 1 \in DOMAIN downstream
      /\ client.codecs.compressionEnabled = TRUE /\ client.codecs.encryptionEnabled = e
  BY TailFacts DEF ClientReceive, Typed, Streaming, ClientCodecs
<1>2. /\ e \in BOOLEAN /\ r \in Nat /\ client.codecs.sendPacketCounter \in Nat
      /\ server.codecs.sendPacketCounter \in Nat /\ client.seen \in Seq(ToClient)
  BY CodecsFacts DEF Typed, Peer, Codecs
<1>3. packets \in Seq(ToClient)
  BY <1>1, BatchFacts
<1>4. Range(packets) \cap Switches = {}
  BY <1>1 DEF Streaming, DownstreamAgrees
<1>5. downstream[1] = Batch(packets, TRUE, e, r + (1 - 1))
  BY <1>1 DEF Streaming, DownstreamAgrees
<1>6. r + (1 - 1) = r
  BY <1>2
<1>7. Readable(downstream[1], client.codecs.compressionEnabled,
               client.codecs.encryptionEnabled, r)
  BY <1>1, <1>5, <1>6 DEF Readable
<1> HIDE DEF packets
<1>8. /\ Typed' /\ client'.seen = client.seen \o packets /\ client'.said = client.said
      /\ client'.connected = client.connected
      /\ client'.codecs.compressionEnabled = TRUE
      /\ client'.codecs.encryptionEnabled = e
      /\ client'.codecs.sendPacketCounter = client.codecs.sendPacketCounter
      /\ client'.codecs.recvPacketCounter = r + (IF e THEN 1 ELSE 0)
      /\ downstream' = Tail(downstream) /\ UNCHANGED <<server, upstream>>
  <2>1. "NetworkSettings" \notin Range(packets) /\ "ServerToClientHandshake" \notin Range(packets)
    BY <1>4 DEF Switches
  <2>2. /\ Typed' /\ client'.seen = client.seen \o packets /\ client'.said = client.said
        /\ client'.connected = client.connected
        /\ client'.codecs.compressionEnabled
             = (client.codecs.compressionEnabled \/ "NetworkSettings" \in Range(packets))
        /\ client'.codecs.encryptionEnabled
             = (client.codecs.encryptionEnabled
                  \/ "ServerToClientHandshake" \in Range(packets))
        /\ client'.codecs.sendPacketCounter = client.codecs.sendPacketCounter
        /\ client'.codecs.recvPacketCounter
             = client.codecs.recvPacketCounter
                 + (IF client.codecs.encryptionEnabled THEN 1 ELSE 0)
        /\ downstream' = Tail(downstream) /\ UNCHANGED <<server, upstream>>
    BY <1>7, ClientReceiveFacts DEF packets
  <2>3. /\ client'.codecs.compressionEnabled = TRUE
        /\ client'.codecs.encryptionEnabled = e
    BY <1>1, <1>2, <2>1, <2>2
  <2>4. QED
    BY <1>1, <2>2, <2>3
<1>9. \A i \in DOMAIN downstream' :
        downstream'[i] = downstream[i + 1] /\ i + 1 \in DOMAIN downstream /\ i \in Nat \ {0}
  BY <1>1, <1>8, TailFacts
<1>10. Range(client'.seen) = Range(client.seen) \cup Range(packets)
  BY <1>2, <1>3, <1>8, ConcatRange
<1>11. DownstreamAgrees'
  <2> SUFFICES ASSUME NEW i \in DOMAIN downstream'
               PROVE  /\ Range(downstream'[i].packets) \cap Switches = {}
                      /\ downstream'[i] = Batch(downstream'[i].packets, TRUE, e,
                                                client'.codecs.recvPacketCounter + (i - 1))
    BY <1>8 DEF DownstreamAgrees
  <2>1. /\ Range(downstream'[i].packets) \cap Switches = {}
        /\ downstream'[i] = Batch(downstream'[i].packets, TRUE, e, r + ((i + 1) - 1))
    BY <1>9 DEF Streaming, DownstreamAgrees
  <2>2. CASE e
    <3>1. client'.codecs.recvPacketCounter + (i - 1) = r + ((i + 1) - 1)
      BY <1>2, <1>8, <1>9, <2>2
    <3>2. QED
      BY <2>1, <3>1
  <2>3. CASE ~e
    <3>1. e = FALSE
      BY <1>2, <2>3
    <3>2. Batch(downstream'[i].packets, TRUE, FALSE, r + ((i + 1) - 1))
            = Batch(downstream'[i].packets, TRUE, FALSE,
                    client'.codecs.recvPacketCounter + (i - 1))
      BY DEF Batch
    <3>3. QED
      BY <2>1, <3>1, <3>2
  <2>4. QED
    BY <2>2, <2>3
<1>12. CountersAgree'
  <2> SUFFICES ASSUME e
               PROVE  /\ client'.codecs.sendPacketCounter
                           = server.codecs.recvPacketCounter + Len(upstream)
                      /\ server.codecs.sendPacketCounter
                           = client'.codecs.recvPacketCounter + Len(downstream')
    BY <1>8 DEF CountersAgree
  <2>1. /\ client.codecs.sendPacketCounter = server.codecs.recvPacketCounter + Len(upstream)
        /\ server.codecs.sendPacketCounter = r + Len(downstream)
    BY DEF Streaming, CountersAgree
  <2>2. Len(downstream') = Len(downstream) - 1 /\ Len(downstream) \in Nat
    BY <1>1, <1>8, TailFacts
  <2>3. client'.codecs.recvPacketCounter = r + 1
    BY <1>8
  <2>4. r + Len(downstream) = (r + 1) + (Len(downstream) - 1)
    BY <1>2, <2>2
  <2>5. QED
    BY <1>8, <2>1, <2>2, <2>3, <2>4
<1>13. SentInOrder'
  <2>1. /\ InOrder(client.seen) /\ InOrder(packets) /\ Before(client.seen, packets)
    BY <1>1 DEF Streaming, SentInOrder, packets
  <2>2. InOrder(client'.seen)
    BY <1>2, <1>3, <1>8, <2>1, ConcatInOrder
  <2>3. ASSUME NEW i \in DOMAIN downstream'
        PROVE  InOrder(downstream'[i].packets) /\ Before(client'.seen, downstream'[i].packets)
    <3>1. 1 \in 1..((i + 1) - 1)
      BY <1>9
    <3>2. Before(packets, downstream'[i].packets)
      BY <1>9, <3>1 DEF Streaming, SentInOrder, packets
    <3>3. Before(client.seen, downstream'[i].packets) /\ InOrder(downstream'[i].packets)
      BY <1>9 DEF Streaming, SentInOrder
    <3>4. QED
      BY <1>10, <3>2, <3>3 DEF Before
  <2>4. ASSUME NEW i \in DOMAIN downstream', NEW j \in 1..(i - 1)
        PROVE  Before(downstream'[j].packets, downstream'[i].packets)
    <3>1. j \in DOMAIN downstream' /\ j + 1 \in 1..((i + 1) - 1)
      BY <1>1, <1>8, <1>9, TailFacts
    <3>2. QED
      BY <1>9, <3>1 DEF Streaming, SentInOrder
  <2>5. QED
    BY <2>2, <2>3, <2>4 DEF SentInOrder
<1>14. FlagsBound'
  <2>1. ASSUME NEW rank, SentAtMost(rank) PROVE SentAtMost(rank)'
    <3>1. AtMost(rank, client'.seen)
      <4>1. AtMost(rank, client.seen) /\ AtMost(rank, packets)
        BY <1>1, <2>1 DEF SentAtMost, packets
      <4>2. QED
        BY <1>10, <4>1 DEF AtMost
    <3>2. \A i \in DOMAIN downstream' : AtMost(rank, downstream'[i].packets)
      BY <1>9, <2>1 DEF SentAtMost
    <3>3. QED
      BY <3>1, <3>2 DEF SentAtMost
  <2>2. /\ SentAtMost(5) => SentAtMost(5)'
        /\ SentAtMost(7) => SentAtMost(7)'
    BY <2>1
  <2>3. QED
    BY <1>8, <2>2 DEF Streaming, FlagsBound
<1>15. UpstreamAgrees'
  BY <1>8 DEF Streaming, UpstreamAgrees
<1>16. GreetingsSaid'
  <2>1. Seen("ServerToClientHandshake")' => Seen("ServerToClientHandshake")
    <3>1. "ServerToClientHandshake" \notin Range(packets)
      BY <1>4 DEF Switches
    <3>2. QED
      BY <1>10, <3>1 DEF Seen, Range
  <2>2. QED
    BY <1>8, <2>1 DEF Streaming, GreetingsSaid
<1>17. /\ ServerCodecs(TRUE, server.codecs.encryptionEnabled)'
       /\ ClientCodecs(TRUE, server.codecs.encryptionEnabled)'
       /\ Range(server'.pendingBatch) \subseteq {"ChunkRadiusUpdated"}
  BY <1>8 DEF Streaming, ServerCodecs, ClientCodecs
<1>18. Streaming'
  BY <1>11, <1>12, <1>13, <1>14, <1>15, <1>16, <1>17 DEF Streaming
<1>19. CodecsAgree'
  BY <1>8 DEF CodecsAgree
<1>20. QED
  BY <1>8, <1>18, <1>19

-----------------------------------------------------------------------------
(* The stages before. *)

\* What calls for a packet.
LEMMA DueFacts ==
  ASSUME NEW p \in ToServer, Due(p)
  PROVE  \/ p = "RequestNetworkSettings"
         \/ p = "Login" /\ Seen("NetworkSettings")
         \/ p = "ClientToServerHandshake" /\ Seen("ServerToClientHandshake")
         \/ Seen("ResourcePacksInfo") \/ Seen("ResourcePacksStack") \/ Seen("StartGame")
         \/ Seen("PlayerSpawn")
<1>1. CASE p = "HaveAllPacks"
  BY <1>1 DEF Due
<1>2. CASE p = "Completed"
  BY <1>2 DEF Due
<1>3. CASE p \in {"RequestChunkRadius", "TickSync"}
  BY <1>3 DEF Due
<1>4. CASE p \in {"SetLocalPlayerAsInitialised", "PlayerAuthInput"}
  BY <1>4 DEF Due
<1>5. CASE p = "RequestNetworkSettings"
  BY <1>5
<1>6. CASE p = "Login"
  BY <1>6 DEF Due
<1>7. CASE p = "ClientToServerHandshake"
  BY <1>7 DEF Due
<1>8. QED
  BY <1>1, <1>2, <1>3, <1>4, <1>5, <1>6, <1>7 DEF ToServer

\* The client says what it is about to say.
LEMMA AskSends ==
  ASSUME Typed, NEW p \in Greetings, ClientSend(p), NEW before, p \notin before,
         NEW c \in BOOLEAN, NEW e \in BOOLEAN, ClientCodecs(c, e),
         Asks(before, p, c, e), client.codecs.sendPacketCounter = Len(upstream) \/ ~e
  PROVE  Asks(before, p, c, e)' /\ upstream' # <<>> /\ upstream = <<>>
         /\ Len(upstream') = 1
<1>1. p \in ToServer
  BY DEF Greetings, ToServer
<1>2. /\ client.said[p] = 0
      /\ client'.said = [client.said EXCEPT ![p] = client.said[p] + 1]
      /\ upstream' = Append(upstream, Batch(<<p>>, c, e, client.codecs.sendPacketCounter))
  BY <1>1, ClientSendFacts DEF ClientCodecs
<1>3. SaidOnly(before) /\ upstream = <<>>
  BY <1>1, <1>2 DEF Asks, SaidOnly
<1>4. Batch(<<p>>, c, e, client.codecs.sendPacketCounter) = Batch(<<p>>, c, e, 0)
  <2>1. CASE e
    BY <1>3, <2>1
  <2>2. CASE ~e
    BY <2>2 DEF Batch
  <2>3. QED
    BY <2>1, <2>2
<1> DEFINE b == Batch(<<p>>, c, e, 0)
<1>5. upstream' = Append(<<>>, b)
  BY <1>2, <1>3, <1>4
<1> HIDE DEF b
<1>6. upstream' = <<b>> /\ Len(upstream') = 1
  BY <1>5
<1>7. SaidOnly(before \cup {p})'
  <2>1. client.said \in [ToServer -> 0..(Repeats + 1)]
    BY DEF Typed, Peer
  <2>2. QED
    BY <1>1, <1>2, <1>3, <2>1 DEF SaidOnly
<1>8. QED
  BY <1>3, <1>6, <1>7 DEF Asks, b

\* The server gets what the client asked.
LEMMA AskReceived ==
  ASSUME Typed, ServerStep, NEW q \in Greetings, NEW before,
         NEW c \in BOOLEAN, NEW e \in BOOLEAN, ServerCodecs(c, e),
         Asks(before, q, c, e), server.codecs.recvPacketCounter = 0
  PROVE  /\ SaidOnly(before \cup {q}) /\ CanRead /\ Tail(upstream) = <<>>
         /\ upstream # <<>> /\ Len(upstream) = 1
         /\ q = "RequestNetworkSettings" => RequestNetworkSettings
         /\ q = "Login" => Login
         /\ q = "ClientToServerHandshake" => ClientToServerHandshake
<1>1. PICK p : Receive(p)
  BY DEF ServerStep, RequestNetworkSettings, Login, ClientToServerHandshake, HaveAllPacks,
         Completed, RequestChunkRadius, SetLocalPlayerAsInitialised, PlayerAuthInput, TickSync
<1> DEFINE b == Batch(<<q>>, c, e, 0)
<1>2. b.packets = <<q>>
  BY DEF Batch
<1> HIDE DEF b
<1>3. upstream = <<b>> /\ SaidOnly(before \cup {q})
  BY <1>1 DEF Receive, Asks, b
<1>4. Head(upstream) = b /\ Tail(upstream) = <<>> /\ Len(upstream) = 1 /\ upstream # <<>>
  BY <1>3
<1>5. ASSUME NEW r, Receive(r) PROVE r = q
  BY <1>2, <1>4, <1>5 DEF Receive
<1>6. CanRead
  BY <1>2, <1>4 DEF CanRead, Readable, ServerCodecs, b
<1>7. /\ q = "RequestNetworkSettings" => RequestNetworkSettings
      /\ q = "Login" => Login
      /\ q = "ClientToServerHandshake" => ClientToServerHandshake
  BY <1>5 DEF ServerStep, RequestNetworkSettings, Login, ClientToServerHandshake, HaveAllPacks,
         Completed, RequestChunkRadius, SetLocalPlayerAsInitialised, PlayerAuthInput, TickSync,
         Greetings
<1>8. QED
  BY <1>3, <1>4, <1>6, <1>7

\* The first batch of the streaming stage is on its way.
Entered ==
  /\ Fresh /\ GreetingsSaid /\ upstream = <<>>
  /\ ServerCodecs(TRUE, server.codecs.encryptionEnabled)
  /\ ClientCodecs(TRUE, server.codecs.encryptionEnabled)
  /\ \/ client.seen = <<"NetworkSettings">>
     \/ client.seen = <<"NetworkSettings", "ServerToClientHandshake">>
  /\ \E packets \in {<<"ResourcePacksInfo">>, <<"LoginSuccess", "ResourcePacksInfo">>} :
       downstream = <<Batch(packets, TRUE, server.codecs.encryptionEnabled, 0)>>
  /\ client.codecs.recvPacketCounter = 0
  /\ server.codecs.encryptionEnabled =>
       /\ client.codecs.sendPacketCounter = server.codecs.recvPacketCounter
       /\ server.codecs.sendPacketCounter = 1

\* With the first batch after the login the streaming begins.
LEMMA Entering == Typed /\ Entered => Streaming
<1> SUFFICES ASSUME Typed, Entered PROVE Streaming
  OBVIOUS
<1> DEFINE e == server.codecs.encryptionEnabled
<1>1. PICK packets \in {<<"ResourcePacksInfo">>, <<"LoginSuccess", "ResourcePacksInfo">>} :
        downstream = <<Batch(packets, TRUE, e, 0)>>
  BY DEF Entered
<1> DEFINE b == Batch(packets, TRUE, e, 0)
<1>2. b.packets = packets /\ b = Batch(b.packets, TRUE, e, 0)
  BY DEF Batch
<1> HIDE DEF b, e
<1>3. DOMAIN downstream = {1} /\ downstream[1] = b /\ Len(downstream) = 1
  BY <1>1 DEF b
<1>4. Range(packets) \subseteq {"LoginSuccess", "ResourcePacksInfo"} /\ InOrder(packets)
  <2>1. Follows("LoginSuccess", "ResourcePacksInfo")
    BY RankFacts DEF Follows
  <2>2. QED
    BY <2>1 DEF Range, InOrder
<1>5. /\ Range(client.seen) \subseteq {"NetworkSettings", "ServerToClientHandshake"}
      /\ InOrder(client.seen)
  <2>1. Follows("NetworkSettings", "ServerToClientHandshake")
    BY RankFacts DEF Follows
  <2>2. QED
    BY <2>1 DEF Entered, Range, InOrder
<1>6. DownstreamAgrees
  <2>1. Range(packets) \cap Switches = {}
    BY <1>4 DEF Switches
  <2>2. client.codecs.recvPacketCounter + (1 - 1) = 0
    BY DEF Entered
  <2>3. QED
    BY <1>2, <1>3, <2>1, <2>2 DEF DownstreamAgrees, e
<1>7. UpstreamAgrees
  BY DEF Entered, UpstreamAgrees
<1>8. CountersAgree
  <2>1. Len(upstream) = 0 /\ server.codecs.recvPacketCounter \in Nat
    BY CodecsFacts DEF Entered, Typed
  <2>2. QED
    BY <1>3, <2>1 DEF Entered, CountersAgree
<1>9. Before(client.seen, packets)
  BY <1>4, <1>5, RankFacts DEF Before, Follows
<1>10. SentInOrder
  <2>1. \A i \in DOMAIN downstream : i = 1 /\ downstream[i].packets = packets
    BY <1>2, <1>3
  <2>2. 1..(1 - 1) = {}
    OBVIOUS
  <2>3. \A i \in DOMAIN downstream : \A j \in 1..(i - 1) : FALSE
    BY <2>1, <2>2
  <2>4. QED
    BY <1>4, <1>5, <1>9, <2>1, <2>3 DEF SentInOrder
<1>11. SentAtMost(5) /\ SentAtMost(7)
  <2>1. /\ AtMost(5, client.seen) /\ AtMost(7, client.seen)
        /\ AtMost(5, packets) /\ AtMost(7, packets)
    BY <1>4, <1>5, RankFacts DEF AtMost
  <2>2. \A i \in DOMAIN downstream : downstream[i].packets = packets
    BY <1>2, <1>3
  <2>3. QED
    BY <2>1, <2>2 DEF SentAtMost
<1>12. FlagsBound
  BY <1>11 DEF FlagsBound, Entered, Fresh
<1>13. Range(server.pendingBatch) \subseteq {"ChunkRadiusUpdated"}
  BY DEF Entered, Fresh, Range
<1>14. QED
  BY <1>6, <1>7, <1>8, <1>10, <1>12, <1>13 DEF Entered, Streaming

\* RequestNetworkSettings is sent, then answered.
LEMMA GreetingStep ==
  ASSUME Typed, CodecsAgree, Greeting, Next
  PROVE  Typed' /\ CodecsAgree' /\ Stage'
<1> DEFINE q == "RequestNetworkSettings"
<1>1. client.seen = <<>> /\ downstream = <<>> /\ Asks({}, q, FALSE, FALSE)
  BY DEF Greeting, HasSeen
<1>2. ASSUME NEW p \in ToServer, ClientSend(p) PROVE Typed' /\ CodecsAgree' /\ Greeting'
  <2>1. Typed' /\ Due(p) /\ UNCHANGED <<server, downstream>> /\ client'.seen = client.seen
        /\ client'.connected = client.connected
        /\ client'.codecs.compressionEnabled = client.codecs.compressionEnabled
        /\ client'.codecs.encryptionEnabled = client.codecs.encryptionEnabled
    BY <1>2, ClientSendFacts
  <2>2. p = q
    BY <1>1, <2>1, DueFacts DEF Seen
  <2>3. Asks({}, q, FALSE, FALSE)'
    BY <1>1, <1>2, <2>2, AskSends DEF Greeting, Greetings
  <2>4. QED
    BY <2>1, <2>3 DEF Greeting, ServerCodecs, ClientCodecs, Fresh, HasSeen, CodecsAgree
<1>3. ~ClientReceive
  BY <1>1 DEF ClientReceive
<1>4. ASSUME ServerStep PROVE Typed' /\ CodecsAgree' /\ Negotiated'
  <2>1. ServerCodecs(FALSE, FALSE) /\ server.codecs.recvPacketCounter = 0
    BY DEF Greeting, ServerCodecs, Typed, IsCodecs
  <2>2. /\ SaidOnly({q}) /\ CanRead /\ Tail(upstream) = <<>> /\ RequestNetworkSettings
        /\ upstream # <<>>
    <3>1. /\ SaidOnly({} \cup {q}) /\ CanRead /\ Tail(upstream) = <<>>
          /\ RequestNetworkSettings /\ upstream # <<>>
      BY <1>1, <1>4, <2>1, AskReceived DEF Greetings
    <3>2. {} \cup {q} = {q}
      OBVIOUS
    <3>3. QED
      BY <3>1, <3>2
  <2>3. PICK s : s = Decrypted(server)
    OBVIOUS
  <2>4. PICK h : h = sendNetworkSettings(s)
    OBVIOUS
  <2>5. Become(h)
    BY <2>2, <2>3, <2>4 DEF RequestNetworkSettings, Handle
  <2>6. /\ SameRest(server, s) /\ s.flushed = <<>> /\ s.pendingBatch = server.pendingBatch
        /\ s.codecs.compressionEnabled = server.codecs.compressionEnabled
        /\ s.codecs.encryptionEnabled = server.codecs.encryptionEnabled
        /\ s.codecs.sendPacketCounter = server.codecs.sendPacketCounter
        /\ s.codecs.recvPacketCounter = server.codecs.recvPacketCounter
             + (IF server.codecs.encryptionEnabled THEN 1 ELSE 0)
    BY <2>3, DecryptedFacts
  <2>7. s \in Session /\ s.codecs \in Codecs
    BY <2>6, CodecsFacts DEF SameRest
  <2>8. /\ SameRest(s, h) /\ h.pendingBatch = s.pendingBatch
        /\ h.flushed = <<Batch(<<"NetworkSettings">>, FALSE, FALSE, 0)>>
        /\ h.codecs = [s.codecs EXCEPT !.compressionEnabled = TRUE]
    BY <2>4, <2>6, <2>7, NetworkSettingsFacts
  <2>9. h \in Session
    BY <2>8 DEF SameRest
  <2>10. /\ server' \in Session /\ server'.flushed = <<>>
         /\ server'.codecs = h.codecs /\ server'.pendingBatch = h.pendingBatch
         /\ server'.startGameSent = h.startGameSent
         /\ server'.spawnSequenceSent = h.spawnSequenceSent
         /\ server'.dropped = h.dropped
         /\ downstream' = downstream \o h.flushed
         /\ upstream' = <<>> /\ client' = client
    BY <2>2, <2>5, <2>9, BecomeFacts
  <2> DEFINE b == Batch(<<"NetworkSettings">>, FALSE, FALSE, 0)
  <2>11. b \in Batches(ToClient)
    BY DEF Batch, Batches, ToClient
  <2> HIDE DEF b
  <2>12. downstream' = <<b>> /\ downstream' \in Seq(Batches(ToClient))
    <3>1. downstream' = <<>> \o <<b>>
      BY <1>1, <2>8, <2>10 DEF b
    <3>2. QED
      BY <2>11, <3>1
  <2>13. /\ h.codecs.compressionEnabled = TRUE /\ h.codecs.encryptionEnabled = FALSE
         /\ h.codecs.sendPacketCounter = 0 /\ h.codecs.recvPacketCounter = 0
    BY <2>1, <2>6, <2>7, <2>8 DEF Codecs, ServerCodecs, Typed, IsCodecs
  <2>14. h.codecs \in Codecs
    BY <2>9, CodecsFacts
  <2>15. Typed'
    BY <2>10, <2>12, <2>13, <2>14 DEF Typed, IsCodecs, Codecs
  <2>16. CodecsAgree' /\ Fresh'
    BY <2>6, <2>8, <2>10 DEF CodecsAgree, SameRest, Greeting, Fresh
  <2>17. ServerCodecs(TRUE, FALSE)' /\ ClientCodecs(FALSE, FALSE)' /\ SaidOnly({q})'
    BY <2>2, <2>10, <2>13 DEF ServerCodecs, ClientCodecs, SaidOnly, Greeting
  <2>18. HasSeen(<<>>, <<b>>)'
    BY <1>1, <2>10, <2>12 DEF HasSeen
  <2>19. QED
    BY <2>10, <2>15, <2>16, <2>17, <2>18 DEF Negotiated, b
<1>5. QED
  BY <1>2, <1>3, <1>4 DEF Next, Stage

\* The packets of a batch with one.
LEMMA RangeOfOne ==
  ASSUME NEW x
  PROVE  Range(<<x>>) = {x}
<1>1. DOMAIN <<x>> = {1} /\ <<x>>[1] = x
  OBVIOUS
<1>2. QED
  BY <1>1 DEF Range

\* The only batch there was is answered with the only one there is.
LEMMA Answered ==
  ASSUME Typed, NEW h \in Session, Become(h), downstream = <<>>, Tail(upstream) = <<>>,
         NEW b \in Batches(ToClient), h.flushed = <<b>>, IsCodecs(h.codecs)
  PROVE  /\ Typed' /\ downstream' = <<b>> /\ upstream' = <<>> /\ client' = client
         /\ server'.codecs = h.codecs /\ server'.pendingBatch = h.pendingBatch
         /\ server'.startGameSent = h.startGameSent
         /\ server'.spawnSequenceSent = h.spawnSequenceSent
         /\ server'.dropped = h.dropped
<1>1. /\ server' \in Session /\ server'.flushed = <<>>
      /\ server'.codecs = h.codecs /\ server'.pendingBatch = h.pendingBatch
      /\ server'.startGameSent = h.startGameSent
      /\ server'.spawnSequenceSent = h.spawnSequenceSent
      /\ server'.dropped = h.dropped
      /\ downstream' = downstream \o h.flushed
      /\ upstream' = Tail(upstream) /\ client' = client
  BY BecomeFacts
<1>2. downstream' = <<>> \o <<b>> /\ upstream' = <<>>
  BY <1>1
<1>3. downstream' = <<b>> /\ downstream' \in Seq(Batches(ToClient))
  BY <1>2
<1>4. Typed'
  <2>1. IsCodecs(server.codecs)'
    BY <1>1 DEF IsCodecs
  <2>2. IsCodecs(client.codecs)' /\ (client \in Peer)'
    BY <1>1 DEF Typed
  <2>3. upstream' \in Seq(Batches(ToServer))
    BY <1>2
  <2>4. QED
    BY <1>1, <1>3, <2>1, <2>2, <2>3 DEF Typed
<1>5. QED
  BY <1>1, <1>2, <1>3, <1>4

\* The client gets NetworkSettings.
LEMMA NegotiatedStep ==
  ASSUME Typed, CodecsAgree, Negotiated, Next
  PROVE  Typed' /\ CodecsAgree' /\ Stage'
<1> DEFINE b == Batch(<<"NetworkSettings">>, FALSE, FALSE, 0)
           q == "Login"
<1>1. /\ client.seen = <<>> /\ downstream = <<b>> /\ upstream = <<>>
      /\ SaidOnly({"RequestNetworkSettings"})
  BY DEF Negotiated, HasSeen
<1>2. ASSUME NEW p \in ToServer, ClientSend(p) PROVE FALSE
  <2>1. Due(p) /\ (p \in Greetings => client.said[p] = 0)
    BY <1>2, ClientSendFacts
  <2>2. p = "RequestNetworkSettings"
    BY <1>1, <2>1, DueFacts DEF Seen
  <2>3. QED
    BY <1>1, <2>1, <2>2 DEF SaidOnly, Greetings
<1>3. ~ServerStep
  BY <1>1 DEF ServerStep, RequestNetworkSettings, Login, ClientToServerHandshake, HaveAllPacks,
         Completed, RequestChunkRadius, SetLocalPlayerAsInitialised, PlayerAuthInput, TickSync,
         Receive
<1>4. ASSUME ClientReceive PROVE Typed' /\ CodecsAgree' /\ LoggingIn'
  <2>1. b.packets = <<"NetworkSettings">> /\ b = Batch(b.packets, FALSE, FALSE, 0)
    BY DEF Batch
  <2> HIDE DEF b
  <2>2. downstream[1] = b /\ Tail(downstream) = <<>>
    BY <1>1
  <2>3. /\ client.codecs.compressionEnabled = FALSE /\ client.codecs.encryptionEnabled = FALSE
        /\ client.codecs.recvPacketCounter = 0
    BY DEF Negotiated, ClientCodecs, Typed, IsCodecs
  <2>4. Readable(downstream[1], client.codecs.compressionEnabled,
                 client.codecs.encryptionEnabled, client.codecs.recvPacketCounter)
    BY <2>1, <2>2, <2>3 DEF Readable
  <2>5. Range(downstream[1].packets) = {"NetworkSettings"}
    BY <2>1, <2>2, RangeOfOne
  <2>6. /\ Typed' /\ client'.seen = client.seen \o downstream[1].packets
        /\ client'.said = client.said
        /\ client'.connected = client.connected
        /\ client'.codecs.compressionEnabled
             = (client.codecs.compressionEnabled
                  \/ "NetworkSettings" \in Range(downstream[1].packets))
        /\ client'.codecs.encryptionEnabled
             = (client.codecs.encryptionEnabled
                  \/ "ServerToClientHandshake" \in Range(downstream[1].packets))
        /\ downstream' = <<>> /\ UNCHANGED <<server, upstream>>
    BY <1>4, <2>2, <2>4, ClientReceiveFacts
  <2>7. ClientCodecs(TRUE, FALSE)'
    <3>1. /\ "NetworkSettings" \in Range(downstream[1].packets)
          /\ "ServerToClientHandshake" \notin Range(downstream[1].packets)
      BY <2>5
    <3>2. QED
      BY <2>3, <2>6, <3>1 DEF ClientCodecs
  <2>8. client'.seen = <<"NetworkSettings">>
    <3>1. client'.seen = <<>> \o <<"NetworkSettings">>
      BY <1>1, <2>1, <2>2, <2>6
    <3>2. QED
      BY <3>1
  <2>9. Asks({"RequestNetworkSettings"}, "Login", TRUE, FALSE)'
    BY <1>1, <2>6 DEF Asks, SaidOnly
  <2>10. QED
    BY <2>6, <2>7, <2>8, <2>9 DEF Negotiated, LoggingIn, HasSeen, ServerCodecs, Fresh, CodecsAgree
<1>5. QED
  BY <1>2, <1>3, <1>4 DEF Next, Stage

\* Sequences of two.
LEMMA AppendTwo ==
  ASSUME NEW x, NEW y
  PROVE  /\ Append(<<>>, y) = <<y>> /\ Append(Append(<<>>, x), y) = <<x, y>>
         /\ <<x>> \o <<y>> = <<x, y>>
<1>1. Append(<<>>, x) = <<x>> /\ Append(<<>>, y) = <<y>>
  OBVIOUS
<1>2. Append(<<x>>, y) = <<x, y>>
  <2> DEFINE s == Append(<<x>>, y)
  <2>1. <<x>> \in Seq({x, y}) /\ <<x, y>> \in Seq({x, y}) /\ y \in {x, y} /\ Len(<<x>>) = 1
    OBVIOUS
  <2>2. /\ s \in Seq({x, y}) /\ Len(s) = 1 + 1 /\ s[1 + 1] = y
        /\ \A i \in 1..1 : s[i] = <<x>>[i]
    BY <2>1, AppendProperties
  <2> HIDE DEF s
  <2>3. Len(s) = 2 /\ s[1] = x /\ s[2] = y
    BY <2>2
  <2>4. \A i \in 1..Len(s) : s[i] = <<x, y>>[i]
    BY <2>3
  <2>5. QED
    BY <2>1, <2>2, <2>3, <2>4, SeqEqual DEF s
<1>3. <<x>> \o <<y>> = Append(<<x>>, y)
  <2>1. <<x>> \in Seq({x, y}) /\ y \in {x, y}
    OBVIOUS
  <2>2. QED
    BY <2>1, AppendIsConcat
<1>4. QED
  BY <1>1, <1>2, <1>3

\* The server answers the login.
LEMMA LoggingInStep ==
  ASSUME Typed, CodecsAgree, LoggingIn, Next
  PROVE  Typed' /\ CodecsAgree' /\ Stage'
<1> DEFINE q == "Login"
           before == {"RequestNetworkSettings"}
<1>1. /\ client.seen = <<"NetworkSettings">> /\ downstream = <<>>
      /\ Asks(before, q, TRUE, FALSE)
  BY DEF LoggingIn, HasSeen
<1>2. ASSUME NEW p \in ToServer, ClientSend(p) PROVE Typed' /\ CodecsAgree' /\ LoggingIn'
  <2>1. Typed' /\ Due(p) /\ UNCHANGED <<server, downstream>> /\ client'.seen = client.seen
        /\ client'.connected = client.connected
        /\ client'.codecs.compressionEnabled = client.codecs.compressionEnabled
        /\ client'.codecs.encryptionEnabled = client.codecs.encryptionEnabled
        /\ (p \in Greetings => client.said[p] = 0)
    BY <1>2, ClientSendFacts
  <2>2. p = q
    <3>1. \A x : Seen(x) => x = "NetworkSettings"
      BY <1>1 DEF Seen
    <3>2. p = "RequestNetworkSettings" \/ p = q
      BY <2>1, <3>1, DueFacts
    <3>3. client.said["RequestNetworkSettings"] = 1
      BY <1>1 DEF Asks, SaidOnly, ToServer
    <3>4. QED
      BY <2>1, <3>2, <3>3 DEF Greetings
  <2>3. Asks(before, q, TRUE, FALSE)'
    BY <1>1, <1>2, <2>2, AskSends DEF LoggingIn, Greetings
  <2>4. QED
    BY <2>1, <2>3 DEF LoggingIn, ServerCodecs, ClientCodecs, Fresh, HasSeen, CodecsAgree
<1>3. ~ClientReceive
  BY <1>1 DEF ClientReceive
<1>4. ASSUME ServerStep PROVE Typed' /\ CodecsAgree' /\ (Shaking' \/ Streaming')
  <2>1. ServerCodecs(TRUE, FALSE) /\ server.codecs.recvPacketCounter = 0
        /\ server.codecs.sendPacketCounter = 0
    BY DEF LoggingIn, ServerCodecs, Typed, IsCodecs
  <2>2. /\ SaidOnly(before \cup {q}) /\ CanRead /\ Tail(upstream) = <<>> /\ Login
        /\ upstream # <<>>
    BY <1>1, <1>4, <2>1, AskReceived DEF Greetings
  <2>3. PICK s : s = Decrypted(server)
    OBVIOUS
  <2>4. PICK h : h = handleLogin(s)
    OBVIOUS
  <2>5. Become(h)
    BY <2>2, <2>3, <2>4 DEF Login, Handle
  <2>6. /\ SameRest(server, s) /\ s.flushed = <<>> /\ s.pendingBatch = server.pendingBatch
        /\ s.codecs.compressionEnabled = server.codecs.compressionEnabled
        /\ s.codecs.encryptionEnabled = server.codecs.encryptionEnabled
        /\ s.codecs.sendPacketCounter = server.codecs.sendPacketCounter
        /\ s.codecs.recvPacketCounter = server.codecs.recvPacketCounter
             + (IF server.codecs.encryptionEnabled THEN 1 ELSE 0)
    BY <2>3, DecryptedFacts
  <2>7. /\ s \in Session /\ s.pendingBatch = <<>>
        /\ s.codecs.compressionEnabled = TRUE /\ s.codecs.encryptionEnabled = FALSE
        /\ s.codecs.sendPacketCounter = 0 /\ s.codecs.recvPacketCounter = 0
    BY <2>1, <2>6 DEF SameRest, LoggingIn, Fresh, ServerCodecs
  <2>8. client.identity \in Identity
    BY IdentityAssumption DEF Typed, Peer
  <2>9. /\ SameRest(s, h)
        /\ \/ /\ h.pendingBatch = <<>>
              /\ h.flushed = <<Batch(Append(s.pendingBatch, "ServerToClientHandshake"),
                                     s.codecs.compressionEnabled,
                                     s.codecs.encryptionEnabled,
                                     s.codecs.sendPacketCounter)>>
              /\ h.codecs.compressionEnabled = s.codecs.compressionEnabled
              /\ h.codecs.encryptionEnabled = TRUE
              /\ h.codecs.sendPacketCounter = 0 /\ h.codecs.recvPacketCounter = 0
           \/ Flushed(s, h, Append(s.pendingBatch, "ResourcePacksInfo"))
           \/ Flushed(s, h, Append(Append(s.pendingBatch, "LoginSuccess"),
                                   "ResourcePacksInfo"))
    BY <2>4, <2>6, <2>7, <2>8, LoginFacts
  <2>10. h \in Session /\ h.codecs \in Codecs
    BY <2>9, CodecsFacts DEF SameRest
  <2>11. /\ h.dropped = 0 /\ ~h.startGameSent /\ ~h.spawnSequenceSent
    BY <2>6, <2>9 DEF SameRest, LoggingIn, Fresh, CodecsAgree
  <2>12. before \cup {q} = {"RequestNetworkSettings", "Login"}
    OBVIOUS
  <2>13. CASE /\ h.pendingBatch = <<>>
              /\ h.flushed = <<Batch(Append(s.pendingBatch, "ServerToClientHandshake"),
                                     s.codecs.compressionEnabled,
                                     s.codecs.encryptionEnabled,
                                     s.codecs.sendPacketCounter)>>
              /\ h.codecs.compressionEnabled = s.codecs.compressionEnabled
              /\ h.codecs.encryptionEnabled = TRUE
              /\ h.codecs.sendPacketCounter = 0 /\ h.codecs.recvPacketCounter = 0
    <3> DEFINE b == Batch(<<"ServerToClientHandshake">>, TRUE, FALSE, 0)
    <3>1. b \in Batches(ToClient)
      BY DEF Batch, Batches, ToClient
    <3>2. Append(s.pendingBatch, "ServerToClientHandshake") = <<"ServerToClientHandshake">>
      BY <2>7
    <3>3. h.flushed = <<b>>
      BY <2>7, <2>13, <3>2
    <3> HIDE DEF b
    <3>4. IsCodecs(h.codecs)
      BY <2>10, <2>13 DEF IsCodecs, Codecs
    <3>5. /\ Typed' /\ downstream' = <<b>> /\ upstream' = <<>> /\ client' = client
          /\ server'.codecs = h.codecs /\ server'.pendingBatch = h.pendingBatch
          /\ server'.startGameSent = h.startGameSent
          /\ server'.spawnSequenceSent = h.spawnSequenceSent
          /\ server'.dropped = h.dropped
      BY <1>1, <2>2, <2>5, <2>10, <3>1, <3>3, <3>4, Answered
    <3>6. ServerCodecs(TRUE, TRUE)' /\ ClientCodecs(TRUE, FALSE)' /\ NotCounted'
      BY <2>7, <2>13, <3>5 DEF ServerCodecs, ClientCodecs, NotCounted, LoggingIn
    <3>7. Fresh' /\ CodecsAgree' /\ SaidOnly({"RequestNetworkSettings", "Login"})'
      BY <2>2, <2>11, <2>12, <2>13, <3>5 DEF Fresh, CodecsAgree, SaidOnly
    <3>8. HasSeen(<<"NetworkSettings">>, <<b>>)'
      BY <1>1, <3>5 DEF HasSeen
    <3>9. QED
      BY <3>5, <3>6, <3>7, <3>8 DEF Shaking, b
  <2>14. ASSUME NEW packets \in {<<"ResourcePacksInfo">>, <<"LoginSuccess", "ResourcePacksInfo">>},
                Flushed(s, h, packets)
         PROVE  Typed' /\ CodecsAgree' /\ Streaming'
    <3> DEFINE b == Batch(packets, TRUE, FALSE, 0)
    <3>1. b \in Batches(ToClient)
      <4>1. packets \in Seq(ToClient)
        BY DEF ToClient
      <4>2. QED
        BY <4>1 DEF Batch, Batches
    <3>2. h.flushed = <<b>> /\ h.codecs = s.codecs /\ h.pendingBatch = <<>>
      BY <2>7, <2>14 DEF Flushed
    <3> HIDE DEF b
    <3>3. IsCodecs(h.codecs)
      BY <2>7, <2>10, <3>2 DEF IsCodecs, Codecs
    <3>4. /\ Typed' /\ downstream' = <<b>> /\ upstream' = <<>> /\ client' = client
          /\ server'.codecs = h.codecs /\ server'.pendingBatch = h.pendingBatch
          /\ server'.startGameSent = h.startGameSent
          /\ server'.spawnSequenceSent = h.spawnSequenceSent
          /\ server'.dropped = h.dropped
      BY <1>1, <2>2, <2>5, <2>10, <3>1, <3>2, <3>3, Answered
    <3>5. ServerCodecs(TRUE, FALSE)' /\ ClientCodecs(TRUE, FALSE)'
      BY <2>7, <3>2, <3>4 DEF ServerCodecs, ClientCodecs, LoggingIn
    <3>6. Fresh' /\ CodecsAgree'
      BY <2>11, <3>2, <3>4 DEF Fresh, CodecsAgree
    <3>7. GreetingsSaid'
      <4>1. ~Seen("ServerToClientHandshake")
        BY <1>1 DEF Seen
      <4>2. client.said["RequestNetworkSettings"] = 1 /\ client.said["Login"] = 1
        BY <2>2 DEF SaidOnly, ToServer
      <4>3. QED
        BY <3>4, <4>1, <4>2 DEF GreetingsSaid, Greetings, Seen
    <3>8. client.codecs.recvPacketCounter = 0
      BY DEF LoggingIn, ClientCodecs, Typed, IsCodecs
    <3>9. Entered'
      BY <1>1, <3>4, <3>5, <3>6, <3>7, <3>8 DEF Entered, b, ServerCodecs, ClientCodecs
    <3>10. Streaming'
      BY <3>4, <3>9, Entering, PTL
    <3>11. QED
      BY <3>4, <3>6, <3>10
  <2>15. /\ Append(s.pendingBatch, "ResourcePacksInfo") = <<"ResourcePacksInfo">>
         /\ Append(Append(s.pendingBatch, "LoginSuccess"), "ResourcePacksInfo")
              = <<"LoginSuccess", "ResourcePacksInfo">>
    BY <2>7, AppendTwo
  <2>16. QED
    BY <2>9, <2>13, <2>14, <2>15
<1>5. QED
  BY <1>2, <1>3, <1>4 DEF Next, Stage


\* The client gets the handshake.
LEMMA ShakingStep ==
  ASSUME Typed, CodecsAgree, Shaking, Next
  PROVE  Typed' /\ CodecsAgree' /\ Stage'
<1> DEFINE b == Batch(<<"ServerToClientHandshake">>, TRUE, FALSE, 0)
           known == {"RequestNetworkSettings", "Login"}
<1>1. /\ client.seen = <<"NetworkSettings">> /\ downstream = <<b>> /\ upstream = <<>>
      /\ SaidOnly(known)
  BY DEF Shaking, HasSeen
<1>2. ASSUME NEW p \in ToServer, ClientSend(p) PROVE FALSE
  <2>1. Due(p) /\ (p \in Greetings => client.said[p] = 0)
    BY <1>2, ClientSendFacts
  <2>2. \A x : Seen(x) => x = "NetworkSettings"
    BY <1>1 DEF Seen
  <2>3. p \in known
    BY <2>1, <2>2, DueFacts
  <2>4. QED
    BY <1>1, <2>1, <2>3 DEF SaidOnly, Greetings
<1>3. ~ServerStep
  BY <1>1 DEF ServerStep, RequestNetworkSettings, Login, ClientToServerHandshake, HaveAllPacks,
         Completed, RequestChunkRadius, SetLocalPlayerAsInitialised, PlayerAuthInput, TickSync,
         Receive
<1>4. ASSUME ClientReceive PROVE Typed' /\ CodecsAgree' /\ Shaken'
  <2>1. /\ b.packets = <<"ServerToClientHandshake">> /\ b = Batch(b.packets, TRUE, FALSE, 0)
    BY DEF Batch
  <2> HIDE DEF b
  <2>2. downstream[1] = b /\ Tail(downstream) = <<>>
    BY <1>1
  <2>3. /\ client.codecs.compressionEnabled = TRUE /\ client.codecs.encryptionEnabled = FALSE
        /\ client.codecs.recvPacketCounter = 0 /\ client.codecs.sendPacketCounter = 0
    BY DEF Shaking, ClientCodecs, Typed, IsCodecs
  <2>4. Readable(downstream[1], client.codecs.compressionEnabled,
                 client.codecs.encryptionEnabled, client.codecs.recvPacketCounter)
    BY <2>1, <2>2, <2>3 DEF Readable
  <2>5. Range(downstream[1].packets) = {"ServerToClientHandshake"}
    BY <2>1, <2>2, RangeOfOne
  <2>6. /\ Typed' /\ client'.seen = client.seen \o downstream[1].packets
        /\ client'.said = client.said
        /\ client'.connected = client.connected
        /\ client'.codecs.compressionEnabled
             = (client.codecs.compressionEnabled
                  \/ "NetworkSettings" \in Range(downstream[1].packets))
        /\ client'.codecs.encryptionEnabled
             = (client.codecs.encryptionEnabled
                  \/ "ServerToClientHandshake" \in Range(downstream[1].packets))
        /\ client'.codecs.sendPacketCounter = client.codecs.sendPacketCounter
        /\ client'.codecs.recvPacketCounter
             = client.codecs.recvPacketCounter + (IF client.codecs.encryptionEnabled THEN 1 ELSE 0)
        /\ downstream' = <<>> /\ UNCHANGED <<server, upstream>>
    BY <1>4, <2>2, <2>4, ClientReceiveFacts
  <2>7. ClientCodecs(TRUE, TRUE)'
    <3>1. "ServerToClientHandshake" \in Range(downstream[1].packets)
      BY <2>5
    <3>2. QED
      BY <2>3, <2>6, <3>1 DEF ClientCodecs
  <2>8. client'.codecs.sendPacketCounter = 0 /\ client'.codecs.recvPacketCounter = 0
    BY <2>3, <2>6
  <2>9. client'.seen = <<"NetworkSettings", "ServerToClientHandshake">>
    <3>1. client'.seen = <<"NetworkSettings">> \o <<"ServerToClientHandshake">>
      BY <1>1, <2>1, <2>2, <2>6
    <3>2. QED
      BY <3>1, AppendTwo
  <2>10. Asks({"RequestNetworkSettings", "Login"}, "ClientToServerHandshake", TRUE, TRUE)'
    BY <1>1, <2>6 DEF Asks, SaidOnly
  <2>11. upstream' = <<>> /\ Len(upstream') = 0
    BY <1>1, <2>6
  <2>12. NotCounted' /\ ServerCodecs(TRUE, TRUE)' /\ Fresh' /\ CodecsAgree'
    BY <2>6 DEF Shaking, NotCounted, ServerCodecs, Fresh, CodecsAgree
  <2>13. HasSeen(<<"NetworkSettings", "ServerToClientHandshake">>, <<>>)'
    BY <2>6, <2>9 DEF HasSeen
  <2>14. QED
    BY <2>6, <2>7, <2>8, <2>10, <2>11, <2>12, <2>13 DEF Shaken
<1>5. QED
  BY <1>2, <1>3, <1>4 DEF Next, Stage

\* It answers the handshake, and the server goes on to the resource packs.
LEMMA ShakenStep ==
  ASSUME Typed, CodecsAgree, Shaken, Next
  PROVE  Typed' /\ CodecsAgree' /\ Stage'
<1> DEFINE q == "ClientToServerHandshake"
           before == {"RequestNetworkSettings", "Login"}
<1>1. /\ client.seen = <<"NetworkSettings", "ServerToClientHandshake">> /\ downstream = <<>>
      /\ Asks(before, q, TRUE, TRUE)
      /\ client.codecs.sendPacketCounter = Len(upstream)
      /\ client.codecs.recvPacketCounter = 0
  BY DEF Shaken, HasSeen
<1>2. ASSUME NEW p \in ToServer, ClientSend(p) PROVE Typed' /\ CodecsAgree' /\ Shaken'
  <2>1. Typed' /\ Due(p) /\ UNCHANGED <<server, downstream>> /\ client'.seen = client.seen
        /\ client'.connected = client.connected
        /\ client'.codecs.compressionEnabled = client.codecs.compressionEnabled
        /\ client'.codecs.encryptionEnabled = client.codecs.encryptionEnabled
        /\ client'.codecs.recvPacketCounter = client.codecs.recvPacketCounter
        /\ client'.codecs.sendPacketCounter
             = client.codecs.sendPacketCounter
                 + (IF client.codecs.encryptionEnabled THEN 1 ELSE 0)
        /\ (p \in Greetings => client.said[p] = 0)
    BY <1>2, ClientSendFacts
  <2>2. p = q
    <3>1. \A x : Seen(x) => x = "NetworkSettings" \/ x = "ServerToClientHandshake"
      BY <1>1 DEF Seen
    <3>2. p \in before \/ p = q
      BY <2>1, <3>1, DueFacts
    <3>3. \A r \in before : r \in ToServer /\ r \in Greetings /\ client.said[r] = 1
      BY <1>1 DEF Asks, SaidOnly, ToServer, Greetings
    <3>4. QED
      BY <2>1, <3>2, <3>3
  <2>3. /\ Asks(before, q, TRUE, TRUE)' /\ upstream = <<>> /\ Len(upstream') = 1
    BY <1>1, <1>2, <2>2, AskSends DEF Shaken, Greetings
  <2>4. client'.codecs.sendPacketCounter = Len(upstream')
    <3>1. client.codecs.sendPacketCounter = 0
      BY <1>1, <2>3
    <3>2. client.codecs.encryptionEnabled = TRUE
      BY DEF Shaken, ClientCodecs
    <3>3. QED
      BY <2>1, <2>3, <3>1, <3>2
  <2>5. QED
    BY <1>1, <2>1, <2>3, <2>4
       DEF Shaken, ServerCodecs, ClientCodecs, Fresh, HasSeen, CodecsAgree, NotCounted
<1>3. ~ClientReceive
  BY <1>1 DEF ClientReceive
<1>4. ASSUME ServerStep PROVE Typed' /\ CodecsAgree' /\ Streaming'
  <2>1. ServerCodecs(TRUE, TRUE) /\ server.codecs.recvPacketCounter = 0
        /\ server.codecs.sendPacketCounter = 0
    BY DEF Shaken, NotCounted
  <2>2. /\ SaidOnly(before \cup {q}) /\ CanRead /\ Tail(upstream) = <<>>
        /\ ClientToServerHandshake /\ upstream # <<>> /\ Len(upstream) = 1
    BY <1>1, <1>4, <2>1, AskReceived DEF Greetings
  <2>3. PICK s : s = Decrypted(server)
    OBVIOUS
  <2>4. PICK h : h = handleClientToServerHandshake(s)
    OBVIOUS
  <2>5. Become(h)
    BY <2>2, <2>3, <2>4 DEF ClientToServerHandshake, Handle
  <2>6. /\ SameRest(server, s) /\ s.flushed = <<>> /\ s.pendingBatch = server.pendingBatch
        /\ s.codecs.compressionEnabled = server.codecs.compressionEnabled
        /\ s.codecs.encryptionEnabled = server.codecs.encryptionEnabled
        /\ s.codecs.sendPacketCounter = server.codecs.sendPacketCounter
        /\ s.codecs.recvPacketCounter = server.codecs.recvPacketCounter
             + (IF server.codecs.encryptionEnabled THEN 1 ELSE 0)
    BY <2>3, DecryptedFacts
  <2>7. /\ s \in Session /\ s.pendingBatch = <<>>
        /\ s.codecs.compressionEnabled = TRUE /\ s.codecs.encryptionEnabled = TRUE
        /\ s.codecs.sendPacketCounter = 0 /\ s.codecs.recvPacketCounter = 1
    BY <2>1, <2>6 DEF SameRest, Shaken, Fresh, ServerCodecs
  <2> DEFINE packets == <<"LoginSuccess", "ResourcePacksInfo">>
             b == Batch(packets, TRUE, TRUE, 0)
  <2>8. Append(Append(s.pendingBatch, "LoginSuccess"), "ResourcePacksInfo") = packets
    BY <2>7, AppendTwo
  <2>9. SameRest(s, h)
        /\ Flushed(s, h, Append(Append(s.pendingBatch, "LoginSuccess"), "ResourcePacksInfo"))
    BY <2>4, <2>6, <2>7, ResourcePacksFacts
  <2>10. /\ h.flushed = <<b>> /\ h.pendingBatch = <<>>
         /\ h.codecs = [s.codecs EXCEPT !.sendPacketCounter = @ + 1]
    BY <2>7, <2>8, <2>9 DEF Flushed
  <2>11. h \in Session /\ h.codecs \in Codecs
    BY <2>9, CodecsFacts DEF SameRest
  <2>12. /\ h.dropped = 0 /\ ~h.startGameSent /\ ~h.spawnSequenceSent
    BY <2>6, <2>9 DEF SameRest, Shaken, Fresh, CodecsAgree
  <2>13. /\ h.codecs.compressionEnabled = TRUE /\ h.codecs.encryptionEnabled = TRUE
         /\ h.codecs.sendPacketCounter = 1 /\ h.codecs.recvPacketCounter = 1
    BY <2>7, <2>10, CodecsFacts DEF Codecs
  <2>14. b \in Batches(ToClient)
    <3>1. packets \in Seq(ToClient)
      BY DEF ToClient
    <3>2. QED
      BY <3>1 DEF Batch, Batches
  <2> HIDE DEF b
  <2>15. IsCodecs(h.codecs)
    BY <2>11, <2>13 DEF IsCodecs, Codecs
  <2>16. /\ Typed' /\ downstream' = <<b>> /\ upstream' = <<>> /\ client' = client
         /\ server'.codecs = h.codecs /\ server'.pendingBatch = h.pendingBatch
         /\ server'.startGameSent = h.startGameSent
         /\ server'.spawnSequenceSent = h.spawnSequenceSent
         /\ server'.dropped = h.dropped
    BY <1>1, <2>2, <2>5, <2>10, <2>11, <2>14, <2>15, Answered
  <2>17. ServerCodecs(TRUE, TRUE)' /\ ClientCodecs(TRUE, TRUE)'
    BY <2>13, <2>16 DEF ServerCodecs, ClientCodecs, Shaken
  <2>18. Fresh' /\ CodecsAgree'
    BY <2>10, <2>12, <2>16 DEF Fresh, CodecsAgree
  <2>19. GreetingsSaid'
    <3>1. \A p \in Greetings : p \in ToServer /\ p \in before \cup {q}
      BY DEF Greetings, ToServer
    <3>2. \A p \in Greetings : client.said[p] = 1
      BY <2>2, <3>1 DEF SaidOnly
    <3>3. QED
      BY <2>16, <3>2 DEF GreetingsSaid
  <2>20. /\ client'.codecs.sendPacketCounter = server'.codecs.recvPacketCounter
         /\ server'.codecs.sendPacketCounter = 1 /\ client'.codecs.recvPacketCounter = 0
    BY <1>1, <2>2, <2>13, <2>16
  <2>21. Entered'
    BY <1>1, <2>16, <2>17, <2>18, <2>19, <2>20 DEF Entered, b, ServerCodecs, ClientCodecs
  <2>22. Streaming'
    BY <2>16, <2>21, Entering, PTL
  <2>23. QED
    BY <2>16, <2>18, <2>22
<1>5. QED
  BY <1>2, <1>3, <1>4 DEF Next, Stage

-----------------------------------------------------------------------------
(* The theorems about GameSession. *)

\* Every step of the streaming stage stays in it.
LEMMA StreamingStep ==
  ASSUME Typed, CodecsAgree, Streaming, Next
  PROVE  Typed' /\ CodecsAgree' /\ Stage'
BY StreamingServerStep, StreamingClientReceive, StreamingClientSend DEF Next, Stage

\* The invariant is inductive.
LEMMA InvStep == IInv /\ [Next]_vars => IInv'
<1> SUFFICES ASSUME IInv, [Next]_vars PROVE IInv'
  OBVIOUS
<1>1. Typed /\ CodecsAgree /\ Stage
  BY DEF IInv
<1>2. CASE Next
  BY <1>1, <1>2, GreetingStep, NegotiatedStep, LoggingInStep, ShakingStep, ShakenStep,
     StreamingStep DEF Stage, IInv
<1>3. CASE UNCHANGED vars
  <2>1. server' = server /\ client' = client /\ upstream' = upstream /\ downstream' = downstream
    BY <1>3 DEF vars
  <2>2. Typed' /\ CodecsAgree'
    BY <1>1, <2>1 DEF Typed, CodecsAgree
  <2>3. Greeting => Greeting'
    BY <2>1 DEF Greeting, ServerCodecs, ClientCodecs, Fresh, HasSeen, Asks, SaidOnly
  <2>4. Negotiated => Negotiated'
    BY <2>1 DEF Negotiated, ServerCodecs, ClientCodecs, Fresh, HasSeen, SaidOnly
  <2>5. LoggingIn => LoggingIn'
    BY <2>1 DEF LoggingIn, ServerCodecs, ClientCodecs, Fresh, HasSeen, Asks, SaidOnly
  <2>6. Shaking => Shaking'
    BY <2>1 DEF Shaking, ServerCodecs, ClientCodecs, Fresh, NotCounted, HasSeen, SaidOnly
  <2>7. Shaken => Shaken'
    BY <2>1 DEF Shaken, ServerCodecs, ClientCodecs, Fresh, NotCounted, HasSeen, Asks, SaidOnly
  <2>8. Streaming => Streaming'
    BY <2>1 DEF Streaming, ServerCodecs, ClientCodecs, GreetingsSaid, Seen, UpstreamAgrees,
           DownstreamAgrees, CountersAgree, SentInOrder, FlagsBound, SentAtMost
  <2>9. QED
    BY <1>1, <2>2, <2>3, <2>4, <2>5, <2>6, <2>7, <2>8 DEF Stage, IInv
<1>4. QED
  BY <1>2, <1>3

\* A session, its client and the batches between them always have their types.
THEOREM TypeCorrect == Spec => []TypeOK
BY InvInit, InvStep, InvImplies, PTL DEF Spec

\* Both ends change codecs at the same place of the stream (handleLogin(),
\* sendNetworkSettings(), initClientEncryption()): for every kind of login and
\* any number of repeated requests no batch is dropped as undecryptable and
\* none makes the client give up.
THEOREM CodecsCorrect == Spec => []CodecsAgree
BY InvInit, InvStep, InvImplies, PTL DEF Spec

\* Whatever the client repeats and however its requests cross the answers, it
\* never sees the join sequence go back, nor StartGame or the spawn burst twice
\* (startGameSent and spawnSequenceSent in the handlers).
THEOREM OrderCorrect == Spec => []JoinOrder
BY InvInit, InvStep, InvImplies, PTL DEF Spec

-----------------------------------------------------------------------------
(* Chat.  The messages of the last ChatWindowMs are of two windows of the    *)
(* guard at most: first those older than the window, then those of it.     *)

Guard == [spawned : BOOLEAN, windowAge : 0..Expired, chatWindowCount : 0..(ChatMaxInWindow + 1)]
Ages  == Seq(0..ChatWindowMs)

\* The first k are older than the window, and the others are those it counts.
Windows(s, ages, k) ==
  /\ k <= ChatMaxInWindow /\ Len(ages) - k <= ChatMaxInWindow
  /\ \A i \in 1..k : ages[i] > s.windowAge
  /\ \A i \in (k + 1)..Len(ages) : ages[i] <= s.windowAge
  /\ s.windowAge <= ChatWindowMs =>
       Len(ages) - k = IF s.chatWindowCount > ChatMaxInWindow THEN ChatMaxInWindow
                       ELSE s.chatWindowCount

Guarded(s, ages) ==
  /\ s \in Guard /\ ages \in Ages
  /\ \A i, j \in 1..Len(ages) : i <= j => ages[j] <= ages[i]
  /\ s.windowAge = Expired => \A i \in 1..Len(ages) : ages[i] > 0
  /\ \E k \in 0..Len(ages) : Windows(s, ages, k)

ChatInv ==
  /\ clientStates = [p \in Players |-> clientStates[p]]
  /\ said = [p \in Players |-> said[p]]
  /\ \A p \in Players : Guarded(clientStates[p], said[p])

\* The invariant is strong enough: two windows are at most twice the limit.
LEMMA ChatInvImplies == ChatInv => FloodBounded /\ ClosedOnlyToFloods
<1> SUFFICES ASSUME ChatInv, NEW p \in Players
             PROVE  /\ Len(said[p]) <= 2 * ChatMaxInWindow
                    /\ Closed(clientStates[p]) => Len(said[p]) >= ChatMaxInWindow
  BY DEF FloodBounded, ClosedOnlyToFloods
<1>1. PICK s, n : s = clientStates[p] /\ n = Len(said[p])
  OBVIOUS
<1>2. /\ s \in Guard /\ n \in Nat /\ ChatMaxInWindow \in Nat
      /\ \E k \in 0..n : Windows(s, said[p], k)
  BY <1>1, ChatAssumption DEF ChatInv, Guarded, Ages
<1>3. PICK k \in 0..n :
        /\ k <= ChatMaxInWindow /\ n - k <= ChatMaxInWindow
        /\ s.windowAge <= ChatWindowMs =>
             n - k = IF s.chatWindowCount > ChatMaxInWindow THEN ChatMaxInWindow
                     ELSE s.chatWindowCount
  BY <1>1, <1>2 DEF Windows
<1>4. n <= 2 * ChatMaxInWindow
  BY <1>2, <1>3
<1>5. Closed(s) => n - k = ChatMaxInWindow
  BY <1>2, <1>3 DEF Closed, Guard
<1>6. Closed(s) => n >= ChatMaxInWindow
  BY <1>2, <1>3, <1>5
<1>7. QED
  BY <1>1, <1>4, <1>6

\* A fresh session has sent nothing.
LEMMA FreshIsGuarded ==
  ASSUME NEW age \in 0..Expired
  PROVE  Guarded(FreshGuard(age), <<>>)
<1> DEFINE s == FreshGuard(age)
           none == <<>>
<1>1. s \in Guard /\ s.chatWindowCount = 0
  BY ChatAssumption DEF FreshGuard, Guard
<1>2. none \in Ages /\ Len(none) = 0
  BY DEF Ages
<1> HIDE DEF s, none
<1>3. Windows(s, none, 0)
  BY <1>1, <1>2, ChatAssumption DEF Windows
<1>4. Guarded(s, none)
  BY <1>1, <1>2, <1>3 DEF Guarded
<1>5. QED
  BY <1>4 DEF s, none

\* At the start nobody has a session.
LEMMA ChatInvInit == ChatInit => ChatInv
BY FreshIsGuarded DEF ChatInit, ChatInv

\* The message ChatGuard() lets pass goes behind those that did.
LEMMA MessageFacts ==
  ASSUME NEW ages \in Ages
  PROVE  /\ Append(ages, 0) \in Ages /\ Len(Append(ages, 0)) = Len(ages) + 1
         /\ Append(ages, 0)[Len(ages) + 1] = 0
         /\ \A i \in 1..Len(ages) : Append(ages, 0)[i] = ages[i] /\ ages[i] \in 0..ChatWindowMs
<1> DEFINE S == 0..ChatWindowMs
<1>1. 0 \in S /\ ages \in Seq(S)
  BY ChatAssumption DEF Ages
<1> HIDE DEF S
<1>2. /\ Append(ages, 0) \in Seq(S) /\ Len(Append(ages, 0)) = Len(ages) + 1
      /\ Append(ages, 0)[Len(ages) + 1] = 0
      /\ \A i \in 1..Len(ages) : Append(ages, 0)[i] = ages[i]
  BY <1>1, AppendProperties
<1>3. \A i \in 1..Len(ages) : ages[i] \in S
  BY <1>1, ElementOfSeq
<1>4. QED
  BY <1>2, <1>3 DEF S, Ages

\* The first message after a window starts the next.
LEMMA WindowStarts ==
  ASSUME NEW s, NEW ages, Guarded(s, ages), s.windowAge > ChatWindowMs
  PROVE  Guarded(ChatGuard(s), Append(ages, 0)) /\ ChatGuard(s).chatWindowCount = 1
<1> DEFINE t == ChatGuard(s)
           new == Append(ages, 0)
           n == Len(ages)
<1>1. s \in Guard /\ ages \in Ages /\ n \in Nat
  BY DEF Guarded, Ages
<1> DEFINE u == [s EXCEPT !.windowAge = 0, !.chatWindowCount = 0]
<1>2. /\ 0 \in 0..Expired /\ 0 \in 0..(ChatMaxInWindow + 1) /\ 1 \in 0..(ChatMaxInWindow + 1)
      /\ ~(0 > ChatMaxInWindow) /\ 0 + 1 = 1
  BY ChatAssumption DEF Expired
<1>3. t \in Guard /\ t.windowAge = 0 /\ t.chatWindowCount = 1
  <2>1. u \in Guard /\ u.windowAge = 0 /\ u.chatWindowCount = 0
    BY <1>1, <1>2 DEF Guard
  <2>2. t = Counted(u)
    BY DEF ChatGuard
  <2> HIDE DEF t, u
  <2>3. t = [u EXCEPT !.chatWindowCount = 1]
    BY <1>2, <2>1, <2>2 DEF Counted
  <2>4. QED
    BY <1>2, <2>1, <2>3 DEF Guard
<1>4. s.windowAge = Expired
  BY <1>1, ChatAssumption DEF Guard, Expired
<1>5. /\ new \in Ages /\ Len(new) = n + 1 /\ new[n + 1] = 0
      /\ \A i \in 1..n : new[i] = ages[i] /\ ages[i] \in 0..ChatWindowMs
  BY <1>1, MessageFacts
<1>6. \A i \in 1..n : ages[i] > 0
  BY <1>4 DEF Guarded
<1>7. n <= ChatMaxInWindow
  <2>1. PICK k \in 0..n : Windows(s, ages, k)
    BY DEF Guarded
  <2>2. \A i \in 1..k : FALSE
    BY <1>1, <1>4, <1>5, <2>1, ChatAssumption DEF Windows, Expired
  <2>3. k = 0
    BY <1>1, <2>2
  <2>4. QED
    BY <1>1, <2>1, <2>3, ChatAssumption DEF Windows
<1> HIDE DEF t, new, n
<1>8. Windows(t, new, n)
  <2>1. \A i \in (n + 1)..(n + 1) : i = n + 1
    BY <1>1
  <2>2. (n + 1) - n = 1
    BY <1>1
  <2>3. QED
    BY <1>1, <1>3, <1>5, <1>6, <1>7, <2>1, <2>2, ChatAssumption DEF Windows
<1>9. \A i, j \in 1..Len(new) : i <= j => new[j] <= new[i]
  <2>1. \A i, j \in 1..n : i <= j => ages[j] <= ages[i]
    BY DEF Guarded, n
  <2>2. \A i \in 1..(n + 1) : i \in 1..n \/ i = n + 1
    BY <1>1
  <2>3. \A i \in 1..(n + 1) : 0 <= new[i]
    BY <1>5, <2>2, ChatAssumption
  <2>4. QED
    BY <1>1, <1>5, <2>1, <2>2, <2>3
<1>10. t.windowAge # Expired /\ n \in 0..Len(new)
  BY <1>1, <1>3, <1>5, ChatAssumption DEF Expired
<1>11. Guarded(t, new)
  BY <1>3, <1>5, <1>8, <1>9, <1>10 DEF Guarded
<1>12. QED
  BY <1>3, <1>11 DEF t, new

\* Within a window a message passes up to the limit, and above it changes nothing.
LEMMA WindowGoesOn ==
  ASSUME NEW s, NEW ages, Guarded(s, ages), s.windowAge <= ChatWindowMs
  PROVE  Guarded(ChatGuard(s), IF ChatGuard(s).chatWindowCount > ChatMaxInWindow THEN ages
                               ELSE Append(ages, 0))
<1> DEFINE t == ChatGuard(s)
           n == Len(ages)
           c == s.chatWindowCount
           d == IF c > ChatMaxInWindow THEN c ELSE c + 1
<1>1. s \in Guard /\ ages \in Ages /\ n \in Nat
      /\ c \in 0..(ChatMaxInWindow + 1) /\ s.windowAge \in 0..Expired
      /\ ChatMaxInWindow \in Nat /\ ChatWindowMs \in Nat
  BY ChatAssumption DEF Guarded, Ages, Guard
<1>2. d \in 0..(ChatMaxInWindow + 1)
  BY <1>1
<1>3. ~(s.windowAge > ChatWindowMs)
  BY <1>1 DEF Expired
<1>4. t = [s EXCEPT !.chatWindowCount = d]
  BY <1>3 DEF ChatGuard, Counted
<1>5. d > ChatMaxInWindow => c >= ChatMaxInWindow
  BY <1>1
<1>6. d <= ChatMaxInWindow => d = c + 1 /\ c < ChatMaxInWindow
  BY <1>1
<1> HIDE DEF d
<1>7. t \in Guard /\ t.chatWindowCount = d /\ t.windowAge = s.windowAge
  BY <1>1, <1>2, <1>4 DEF Guard
<1>8. PICK k \in 0..n : Windows(s, ages, k)
  BY DEF Guarded
<1>9. n - k = IF c > ChatMaxInWindow THEN ChatMaxInWindow ELSE c
  BY <1>8 DEF Windows
<1>10. s.windowAge # Expired
  BY <1>1, <1>3 DEF Expired
<1> HIDE DEF t, n, c
<1>11. CASE d > ChatMaxInWindow
  <2>1. n - k = ChatMaxInWindow
    BY <1>1, <1>5, <1>9, <1>11
  <2>2. Windows(t, ages, k)
    BY <1>7, <1>8, <1>11, <2>1 DEF Windows, n
  <2>3. Guarded(t, ages)
    BY <1>1, <1>7, <1>8, <1>10, <2>2 DEF Guarded, n
  <2>4. QED
    BY <1>7, <1>11, <2>3 DEF t
<1>12. CASE ~(d > ChatMaxInWindow)
  <2> DEFINE new == Append(ages, 0)
  <2>1. /\ new \in Ages /\ Len(new) = n + 1 /\ new[n + 1] = 0
        /\ \A i \in 1..n : new[i] = ages[i] /\ ages[i] \in 0..ChatWindowMs
    BY <1>1, MessageFacts DEF n
  <2>2. d = c + 1 /\ c < ChatMaxInWindow /\ n - k = c
    BY <1>1, <1>2, <1>6, <1>9, <1>12
  <2> HIDE DEF new
  <2>3. (n + 1) - k = d /\ d <= ChatMaxInWindow /\ k \in 0..(n + 1)
    BY <1>1, <1>8, <2>2
  <2>4. \A i \in 1..(n + 1) : i \in 1..n \/ i = n + 1
    BY <1>1
  <2>5. Windows(t, new, k)
    <3>1. /\ k <= ChatMaxInWindow
          /\ \A i \in 1..k : ages[i] > s.windowAge
          /\ \A i \in (k + 1)..n : ages[i] <= s.windowAge
      BY <1>8 DEF Windows, n
    <3>2. \A i \in 1..k : i \in 1..n
      BY <1>1, <1>8
    <3>3. \A i \in (k + 1)..(n + 1) : (i \in (k + 1)..n /\ i \in 1..n) \/ i = n + 1
      BY <1>1, <1>8
    <3>4. \A i \in (k + 1)..(n + 1) : new[i] <= s.windowAge
      BY <1>1, <2>1, <3>1, <3>3
    <3>5. \A i \in 1..k : new[i] > s.windowAge
      BY <2>1, <3>1, <3>2
    <3>6. QED
      BY <1>7, <1>12, <2>1, <2>3, <3>1, <3>4, <3>5 DEF Windows
  <2>6. \A i, j \in 1..Len(new) : i <= j => new[j] <= new[i]
    <3>1. \A i, j \in 1..n : i <= j => ages[j] <= ages[i]
      BY DEF Guarded, n
    <3>2. \A i \in 1..(n + 1) : 0 <= new[i]
      BY <2>1, <2>4, ChatAssumption
    <3>3. QED
      BY <1>1, <2>1, <2>4, <3>1, <3>2
  <2>7. Guarded(t, new)
    BY <1>7, <1>10, <2>1, <2>3, <2>5, <2>6 DEF Guarded
  <2>8. QED
    BY <1>7, <1>12, <2>7 DEF t, new
<1>13. QED
  BY <1>11, <1>12

\* The positions of a sequence.
LEMMA IntervalSize ==
  ASSUME NEW n \in Nat
  PROVE  IsFiniteSet(1..n) /\ Cardinality(1..n) = n
<1>1. IsFiniteSet(1..n) /\ Cardinality(1..n) = IF 1 > n THEN 0 ELSE n - 1 + 1
  BY FS_Interval
<1>2. QED
  BY <1>1

\* A set of the first positions is as large as the last of them.
LEMMA FirstOnes ==
  ASSUME NEW n \in Nat, NEW S \in SUBSET (1..n),
         \A i \in S : \A j \in 1..i : j \in S
  PROVE  Cardinality(S) \in 0..n /\ S = 1..Cardinality(S)
<1>1. IsFiniteSet(1..n) /\ Cardinality(1..n) = n
  BY IntervalSize
<1>2. IsFiniteSet(S) /\ Cardinality(S) <= n /\ Cardinality(S) \in Nat
  BY <1>1, FS_Subset, FS_CardinalityType
<1> DEFINE d == Cardinality(S)
<1>3. ASSUME NEW i \in S PROVE i \in 1..d
  <2>1. i \in Nat /\ 1 <= i /\ 1..i \in SUBSET S
    OBVIOUS
  <2>3. Cardinality(1..i) = i
    BY <2>1, IntervalSize
  <2>4. Cardinality(1..i) <= d
    BY <1>2, <2>1, FS_Subset
  <2>5. QED
    BY <1>2, <2>1, <2>3, <2>4
<1>4. IsFiniteSet(1..d) /\ Cardinality(1..d) = d
  BY <1>2, IntervalSize
<1>5. S \in SUBSET (1..d)
  BY <1>3
<1>6. S = 1..d
  BY <1>4, <1>5, FS_Subset
<1>7. QED
  BY <1>2, <1>6

\* When time passes the first messages go, and the others are older by one.
LEMMA OlderFacts ==
  ASSUME NEW ages \in Ages, \A i, j \in 1..Len(ages) : i <= j => ages[j] <= ages[i]
  PROVE  \E d \in 0..Len(ages) :
           /\ Older(ages) \in Ages /\ Len(Older(ages)) = Len(ages) - d
           /\ \A i \in 1..d : ages[i] = ChatWindowMs
           /\ \A i \in (d + 1)..Len(ages) : ages[i] < ChatWindowMs
           /\ \A i \in 1..(Len(ages) - d) : Older(ages)[i] = ages[i + d] + 1
<1> DEFINE n == Len(ages)
           S == {i \in DOMAIN ages : ages[i] = ChatWindowMs}
           d == Cardinality(S)
           recent == SubSeq(ages, d + 1, n)
           older == [i \in DOMAIN recent |-> recent[i] + 1]
<1>1. /\ n \in Nat /\ DOMAIN ages = 1..n /\ \A i \in 1..n : ages[i] \in 0..ChatWindowMs
  <2> DEFINE T == 0..ChatWindowMs
  <2>1. ages \in Seq(T)
    BY DEF Ages
  <2> HIDE DEF T
  <2>2. n \in Nat /\ DOMAIN ages = 1..n
    BY <2>1, LenProperties
  <2>3. \A i \in 1..n : ages[i] \in T
    BY <2>1, ElementOfSeq
  <2>4. QED
    BY <2>2, <2>3 DEF T
<1>2. S \in SUBSET (1..n) /\ \A i \in S : \A j \in 1..i : j \in S
  <2>1. ASSUME NEW i \in S, NEW j \in 1..i PROVE j \in S
    <3>1. i \in 1..n /\ j \in 1..n /\ j <= i /\ ages[i] = ChatWindowMs
      BY <1>1
    <3>2. ages[i] <= ages[j] /\ ages[j] \in 0..ChatWindowMs
      BY <1>1, <3>1
    <3>3. ages[j] = ChatWindowMs
      BY <3>1, <3>2, ChatAssumption
    <3>4. QED
      BY <1>1, <3>1, <3>3
  <2>2. QED
    BY <1>1, <2>1
<1>3. d \in 0..n /\ S = 1..d
  BY <1>1, <1>2, FirstOnes
<1>4. older = Older(ages)
  BY DEF Older, Outdated
<1>5. \A i \in 1..d : ages[i] = ChatWindowMs
  BY <1>3
<1>6. \A i \in (d + 1)..n : ages[i] < ChatWindowMs
  <2>1. \A i \in (d + 1)..n : i \in 1..n /\ i \notin 1..d
    BY <1>1, <1>3
  <2>2. \A i \in (d + 1)..n : i \notin S
    BY <1>3, <2>1
  <2>3. QED
    BY <1>1, <2>1, <2>2, ChatAssumption
<1> HIDE DEF S, d
<1>7. /\ recent \in Seq(0..ChatWindowMs) /\ Len(recent) = n - d
      /\ \A i \in 1..(n - d) : recent[i] = ages[i + d]
  <2>1. \A i \in (d + 1)..n : ages[i] \in 0..ChatWindowMs
    BY <1>1, <1>3
  <2>2. /\ recent \in Seq(0..ChatWindowMs)
        /\ Len(recent) = IF d + 1 <= n THEN n - (d + 1) + 1 ELSE 0
        /\ \A i \in 1..(n - (d + 1) + 1) : recent[i] = ages[(d + 1) + i - 1]
    BY <1>1, <1>3, <2>1, SubSeqProperties DEF Ages
  <2>3. n - (d + 1) + 1 = n - d /\ (~(d + 1 <= n) => n - d = 0)
    <3>1. d \in Int /\ n \in Int /\ d <= n
      BY <1>1, <1>3
    <3> HIDE DEF n
    <3>2. QED
      BY <3>1
  <2>4. \A i \in 1..(n - d) : (d + 1) + i - 1 = i + d
    BY <1>1, <1>3
  <2>5. QED
    BY <2>2, <2>3, <2>4
<1> HIDE DEF recent
<1>8. DOMAIN recent = 1..(n - d)
  BY <1>7
<1>9. \A i \in 1..(n - d) : older[i] = ages[i + d] + 1 /\ older[i] \in 0..ChatWindowMs
  <2>1. \A i \in 1..(n - d) : i + d \in (d + 1)..n /\ i + d \in 1..n
    BY <1>1, <1>3
  <2>2. \A i \in 1..(n - d) : older[i] = ages[i + d] + 1
    BY <1>7, <1>8
  <2>3. \A i \in 1..(n - d) : ages[i + d] \in 0..ChatWindowMs /\ ages[i + d] < ChatWindowMs
    BY <1>1, <1>6, <2>1
  <2> HIDE DEF older, n
  <2>4. \A x \in 0..ChatWindowMs : x < ChatWindowMs => x + 1 \in 0..ChatWindowMs
    BY ChatAssumption
  <2>5. QED
    BY <2>2, <2>3, <2>4
<1>10. older \in [1..(n - d) -> 0..ChatWindowMs]
  BY <1>8, <1>9
<1>11. n - d \in Nat
  BY <1>1, <1>3
<1> HIDE DEF older
<1>12. older \in Seq(0..ChatWindowMs) /\ Len(older) = n - d
  <2> DEFINE T == 0..ChatWindowMs
  <2>1. PICK m \in Nat : m = n - d
    BY <1>11
  <2>2. older \in [1..m -> T]
    BY <1>10, <2>1
  <2> HIDE DEF T
  <2>3. older \in Seq(T) /\ Len(older) = m
    BY <2>2
  <2>4. QED
    BY <2>1, <2>3 DEF T
<1>13. QED
  BY <1>3, <1>4, <1>5, <1>6, <1>9, <1>12 DEF Ages

\* Time passes: what the window does not count leaves first.
LEMMA TimePasses ==
  ASSUME NEW s, NEW ages, Guarded(s, ages)
  PROVE  Guarded([s EXCEPT !.windowAge = IF @ = Expired THEN @ ELSE @ + 1], Older(ages))
<1> DEFINE n == Len(ages)
           a == IF s.windowAge = Expired THEN s.windowAge ELSE s.windowAge + 1
           t == [s EXCEPT !.windowAge = a]
           new == Older(ages)
<1>1. /\ s \in Guard /\ ages \in Ages /\ n \in Nat /\ s.windowAge \in 0..Expired
      /\ ChatWindowMs \in Nat /\ ChatMaxInWindow \in Nat /\ Expired = ChatWindowMs + 1
      /\ s.chatWindowCount \in 0..(ChatMaxInWindow + 1)
  BY ChatAssumption DEF Guarded, Ages, Guard, Expired
<1>2. a \in 0..Expired
  BY <1>1
<1>3. t \in Guard /\ t.windowAge = a /\ t.chatWindowCount = s.chatWindowCount
  <2> HIDE DEF a
  <2>1. QED
    BY <1>1, <1>2 DEF Guard
<1>4. PICK k \in 0..n : Windows(s, ages, k)
  BY DEF Guarded
<1>5. \A i, j \in 1..n : i <= j => ages[j] <= ages[i]
  BY DEF Guarded
<1>6. PICK d \in 0..n :
        /\ new \in Ages /\ Len(new) = n - d
        /\ \A i \in 1..d : ages[i] = ChatWindowMs
        /\ \A i \in (d + 1)..n : ages[i] < ChatWindowMs
        /\ \A i \in 1..(n - d) : new[i] = ages[i + d] + 1
  BY <1>1, <1>5, OlderFacts
<1>7. \A i \in 1..n : ages[i] \in 0..ChatWindowMs
  BY <1>1, ElementOfSeq DEF Ages
<1> HIDE DEF new, t
<1>8. \A i \in 1..(n - d) : i + d \in 1..n /\ i + d \in (d + 1)..n /\ new[i] = ages[i + d] + 1
  BY <1>1, <1>6
<1>9. \A i, j \in 1..Len(new) : i <= j => new[j] <= new[i]
  <2>1. ASSUME NEW i \in 1..(n - d), NEW j \in 1..(n - d), i <= j
        PROVE  new[j] <= new[i]
    <3>1. i + d <= j + d
      BY <1>1, <1>6, <2>1
    <3>2. ages[j + d] <= ages[i + d] /\ ages[i + d] \in Nat /\ ages[j + d] \in Nat
      BY <1>1, <1>5, <1>7, <1>8, <3>1
    <3>3. QED
      BY <1>8, <3>2
  <2>2. QED
    BY <1>6, <2>1
<1>10. \A i \in 1..Len(new) : new[i] > 0
  <2>1. \A i \in 1..(n - d) : ages[i + d] \in Nat
    BY <1>7, <1>8
  <2>2. QED
    BY <1>6, <1>8, <2>1
<1>11. CASE s.windowAge < ChatWindowMs
  <2>1. a = s.windowAge + 1 /\ s.windowAge # Expired /\ a <= ChatWindowMs
    BY <1>1, <1>11
  <2> HIDE DEF a
  <2>2. \A i \in 1..d : i \notin (k + 1)..n
    BY <1>1, <1>4, <1>6, <1>11 DEF Windows
  <2>3. d <= k
    <3>1. d = 0 \/ d \in 1..d
      BY <1>1, <1>6
    <3>2. d \in 1..d => ~(k + 1 <= d)
      BY <1>1, <1>4, <1>6, <2>2
    <3>3. QED
      BY <1>1, <1>4, <1>6, <3>1, <3>2
  <2>4. /\ k - d \in 0..(n - d) /\ (n - d) - (k - d) = n - k
        /\ k - d <= k
    BY <1>1, <1>4, <1>6, <2>3
  <2>5. \A i \in 1..(k - d) : new[i] > a
    <3>1. \A i \in 1..(k - d) : i + d \in 1..k /\ i \in 1..(n - d)
      BY <1>1, <1>4, <1>6, <2>3
    <3>2. \A i \in 1..(k - d) : ages[i + d] > s.windowAge /\ ages[i + d] \in Nat
      BY <1>4, <1>7, <1>8, <3>1 DEF Windows
    <3>3. QED
      BY <1>1, <1>8, <2>1, <3>1, <3>2
  <2>6. \A i \in (k - d + 1)..(n - d) : new[i] <= a
    <3>1. \A i \in (k - d + 1)..(n - d) : i + d \in (k + 1)..n /\ i \in 1..(n - d)
      BY <1>1, <1>4, <1>6, <2>3
    <3>2. \A i \in (k - d + 1)..(n - d) : ages[i + d] <= s.windowAge /\ ages[i + d] \in Nat
      BY <1>4, <1>7, <1>8, <3>1 DEF Windows, n
    <3>3. QED
      BY <1>1, <1>8, <2>1, <3>1, <3>2
  <2>7. /\ k <= ChatMaxInWindow /\ n - k <= ChatMaxInWindow
        /\ n - k = IF s.chatWindowCount > ChatMaxInWindow THEN ChatMaxInWindow
                   ELSE s.chatWindowCount
    BY <1>1, <1>4, <1>11 DEF Windows, n
  <2>8. k - d <= ChatMaxInWindow
    BY <1>1, <1>4, <1>6, <2>4, <2>7
  <2>9. Windows(t, new, k - d)
    BY <1>3, <1>6, <2>4, <2>5, <2>6, <2>7, <2>8 DEF Windows
  <2>10. QED
    BY <1>3, <1>6, <1>9, <1>10, <2>4, <2>9 DEF Guarded, t, new, a
<1>12. CASE ~(s.windowAge < ChatWindowMs)
  <2>1. a = Expired /\ a > ChatWindowMs
    BY <1>1, <1>12
  <2>2. k = 0
    <3>1. \A i \in 1..k : FALSE
      BY <1>1, <1>4, <1>7, <1>12 DEF Windows, n
    <3>2. QED
      BY <1>1, <1>4, <3>1
  <2>3. n <= ChatMaxInWindow
    BY <1>1, <1>4, <2>2 DEF Windows, n
  <2>4. n - d \in Nat /\ n - d <= ChatMaxInWindow /\ (n - d) - 0 = n - d /\ 0 \in 0..(n - d)
    BY <1>1, <1>6, <2>3
  <2>5. \A i \in 1..(n - d) : new[i] \in 0..ChatWindowMs
    BY <1>6, ElementOfSeq DEF Ages
  <2> HIDE DEF a
  <2>6. \A i \in 1..(n - d) : new[i] <= a
    BY <1>1, <2>1, <2>5
  <2>7. Windows(t, new, 0)
    <3>1. 0 + 1 = 1 /\ 1..0 = {} /\ 0 <= ChatMaxInWindow /\ ~(a <= ChatWindowMs)
      BY <1>1, <1>2, <2>1
    <3>2. QED
      BY <1>3, <1>6, <2>4, <2>6, <3>1 DEF Windows
  <2>8. QED
    BY <1>3, <1>6, <1>9, <1>10, <2>4, <2>7 DEF Guarded, t, new, a
<1>13. QED
  BY <1>11, <1>12

\* What a handler or time makes of one player, the others keep.
LEMMA TextStep ==
  ASSUME ChatInv, NEW p \in Players, NEW content, handleText(p, content)
  PROVE  ChatInv'
<1> DEFINE s == ChatGuard(clientStates[p])
           passes == ~(s.chatWindowCount > ChatMaxInWindow)
           new == IF s.chatWindowCount > ChatMaxInWindow THEN said[p] ELSE Append(said[p], 0)
<1>1. CASE UNCHANGED chatVars
  BY <1>1 DEF chatVars, ChatInv
<1>2. CASE /\ clientStates' = [clientStates EXCEPT ![p] = s]
           /\ said' = IF s.chatWindowCount > ChatMaxInWindow THEN said
                      ELSE [said EXCEPT ![p] = Append(@, 0)]
  <2>1. Guarded(clientStates[p], said[p])
    BY DEF ChatInv
  <2>2. clientStates[p] \in Guard
    BY <2>1 DEF Guarded
  <2>3. Guarded(s, new)
    <3>1. CASE clientStates[p].windowAge <= ChatWindowMs
      BY <2>1, <3>1, WindowGoesOn
    <3>2. CASE clientStates[p].windowAge > ChatWindowMs
      <4>1. Guarded(s, Append(said[p], 0)) /\ s.chatWindowCount = 1
        BY <2>1, <3>2, WindowStarts
      <4>2. ~(1 > ChatMaxInWindow)
        BY ChatAssumption
      <4>3. QED
        BY <4>1, <4>2
    <3>3. QED
      BY <2>2, <3>1, <3>2, ChatAssumption DEF Guard, Expired
  <2> HIDE DEF s
  <2>4. /\ clientStates' = [q \in Players |-> IF q = p THEN s ELSE clientStates[q]]
        /\ said' = [q \in Players |-> IF q = p THEN new ELSE said[q]]
    BY <1>2 DEF ChatInv
  <2> HIDE DEF new
  <2>5. QED
    BY <2>3, <2>4 DEF ChatInv
<1>3. QED
  BY <1>1, <1>2 DEF handleText

\* The announcement leaves the guard alone.
LEMMA SpawnStep ==
  ASSUME ChatInv, NEW p \in Players, Spawn(p)
  PROVE  ChatInv'
<1>1. Guarded(clientStates[p], said[p]) /\ clientStates[p] \in Guard
  BY DEF ChatInv, Guarded
<1> DEFINE t == [clientStates[p] EXCEPT !.spawned = TRUE]
<1>2. /\ t \in Guard /\ t.windowAge = clientStates[p].windowAge
      /\ t.chatWindowCount = clientStates[p].chatWindowCount
  BY <1>1 DEF Guard
<1>3. /\ clientStates' = [q \in Players |-> IF q = p THEN t ELSE clientStates[q]]
      /\ said' = said
  BY DEF Spawn, ChatInv
<1> HIDE DEF t
<1>4. Guarded(t, said[p])
  BY <1>1, <1>2 DEF Guarded, Windows
<1>5. QED
  BY <1>3, <1>4 DEF ChatInv

\* A session that ends takes its guard and its messages with it.
LEMMA LeaveStep ==
  ASSUME ChatInv, NEW p \in Players, Leave(p)
  PROVE  ChatInv'
<1>1. PICK age \in 0..Expired : clientStates' = [clientStates EXCEPT ![p] = FreshGuard(age)]
  BY DEF Leave
<1>2. /\ clientStates' = [q \in Players |-> IF q = p THEN FreshGuard(age) ELSE clientStates[q]]
      /\ said' = [q \in Players |-> IF q = p THEN <<>> ELSE said[q]]
  BY <1>1 DEF Leave, ChatInv
<1>3. Guarded(FreshGuard(age), <<>>)
  BY FreshIsGuarded
<1>4. QED
  BY <1>2, <1>3 DEF ChatInv

\* Time passes for all.
LEMMA TickStep ==
  ASSUME ChatInv, Tick
  PROVE  ChatInv'
<1>1. /\ clientStates' = [p \in Players |->
           [clientStates[p] EXCEPT !.windowAge = IF @ = Expired THEN @ ELSE @ + 1]]
      /\ said' = [p \in Players |-> Older(said[p])]
  BY DEF Tick
<1>2. \A p \in Players :
        Guarded([clientStates[p] EXCEPT !.windowAge = IF @ = Expired THEN @ ELSE @ + 1],
                Older(said[p]))
  BY TimePasses DEF ChatInv
<1>3. QED
  BY <1>1, <1>2 DEF ChatInv

\* The invariant is inductive.
LEMMA ChatInvStep == ChatInv /\ [ChatNext]_chatVars => ChatInv'
<1> SUFFICES ASSUME ChatInv, [ChatNext]_chatVars PROVE ChatInv'
  OBVIOUS
<1>1. CASE \E p \in Players, content \in Contents : handleText(p, content)
  BY <1>1, TextStep
<1>2. CASE \E p \in Players : Spawn(p)
  BY <1>2, SpawnStep
<1>3. CASE \E p \in Players : Leave(p)
  BY <1>3, LeaveStep
<1>4. CASE Tick
  BY <1>4, TickStep
<1>5. CASE UNCHANGED chatVars
  BY <1>5 DEF chatVars, ChatInv
<1>6. QED
  BY <1>1, <1>2, <1>3, <1>4, <1>5 DEF ChatNext

\* Whatever is written and whoever joins and leaves, at most twice the limit of
\* handleText() goes out in any ChatWindowMs.
THEOREM FloodCorrect == ChatSpec => []FloodBounded
BY ChatInvInit, ChatInvStep, ChatInvImplies, PTL DEF ChatSpec

\* A player is dropped by the guard of handleText() only while the limit went
\* out in the last ChatWindowMs.
THEOREM ClosingCorrect == ChatSpec => []ClosedOnlyToFloods
BY ChatInvInit, ChatInvStep, ChatInvImplies, PTL DEF ChatSpec

\* The guard of a session and what it let pass always have their types.
THEOREM ChatTypeCorrect == ChatSpec => []ChatTypeOK
<1>1. ChatInv => ChatTypeOK
  BY DEF ChatInv, Guarded, Guard, Ages, ChatTypeOK
<1>2. QED
  BY <1>1, ChatInvInit, ChatInvStep, PTL DEF ChatSpec
=============================================================================
