---------------------------- MODULE GameSession ----------------------------
(***************************************************************************)
(* The game-layer session of one client, from RequestNetworkSettings to    *)
(* the spawn: the handlers behind handleGamePacket() and the batches they  *)
(* send (LBBNet/Server/PacketHandler.cpp, LBBNet/Packets).                 *)
(*                                                                         *)
(* Batches travel over two FIFO channels: OrderedDelivery shows that each  *)
(* direction of ordering channel 0 is one.  The client (external) takes    *)
(* the steps the handlers' comments describe: it answers each packet of    *)
(* the join sequence, and may repeat HaveAllPacks and Completed, ask again *)
(* for a radius, and send TickSync and PlayerAuthInput on its own account. *)
(***************************************************************************)
EXTENDS Naturals, Sequences, SequencesExt

CONSTANTS Identities,     \* how clients log in, a subset of Identity
          Repeats         \* bound: how often a repeatable packet may be sent

\* "online": a chain with a usable public key; "badKey": with a key that cannot
\* be used; "offline": without a key; "invalid": no identity in the chain.
Identity == {"online", "badKey", "offline", "invalid"}

ASSUME IdentityAssumption == Identities \subseteq Identity /\ Repeats \in Nat \ {0}

ToServer == {"RequestNetworkSettings", "Login", "ClientToServerHandshake", "HaveAllPacks",
             "Completed", "RequestChunkRadius", "SetLocalPlayerAsInitialised",
             "PlayerAuthInput", "TickSync"}

ToClient == {"NetworkSettings", "ServerToClientHandshake", "LoginSuccess",
             "ResourcePacksInfo", "ResourcePacksStack", "StartGame", "ItemRegistry",
             "ChunkRadiusUpdated", "PlayerSpawn", "CreativeContent", "TickSync"}

VARIABLES server,         \* the ClientState of the session
          client,         \* the peer: its codecs and what it sent and saw
          upstream,       \* batches from the client, oldest first
          downstream      \* batches to the client, oldest first

vars == <<server, client, upstream, downstream>>

-----------------------------------------------------------------------------
(* Codecs.  A batch is compressed once NetworkSettings is out and encrypted *)
(* once the handshake is; the trailer binds it to its number in the stream. *)

Batch(packets, compressed, encrypted, counter) ==
  [packets    |-> packets,
   compressed |-> compressed,
   encrypted  |-> encrypted,
   counter    |-> IF encrypted THEN counter ELSE 0]

\* The receiver undoes exactly what the sender did.
Readable(batch, compressed, encrypted, counter) ==
  batch = Batch(batch.packets, compressed, encrypted, counter)

\* Only encrypted batches are counted.
IsCodecs(c) ==
  /\ c \in [compressionEnabled : BOOLEAN, encryptionEnabled : BOOLEAN,
            sendPacketCounter : Nat, recvPacketCounter : Nat]
  /\ ~c.encryptionEnabled => c.sendPacketCounter = 0 /\ c.recvPacketCounter = 0
PlainCodecs == [compressionEnabled |-> FALSE, encryptionEnabled |-> FALSE,
                sendPacketCounter |-> 0, recvPacketCounter |-> 0]

TypeOK ==
  /\ IsCodecs(server.codecs) /\ IsCodecs(client.codecs)
  /\ server.pendingBatch \in Seq(ToClient)
  /\ server.flushed = <<>>
  /\ \A flag \in {"loggedIn", "startGameSent", "spawnSequenceSent", "spawnPhase2Sent",
                  "receivedAuthInput", "spawned"} : server[flag] \in BOOLEAN
  /\ server.dropped \in Nat
  /\ client.identity \in Identities
  /\ client.said \in [ToServer -> 0..(Repeats + 1)]
  /\ client.seen \in Seq(ToClient)
  /\ client.connected \in BOOLEAN
  /\ \A i \in DOMAIN upstream : upstream[i].packets \in Seq(ToServer)
  /\ \A i \in DOMAIN downstream : downstream[i].packets \in Seq(ToClient)

Init ==
  /\ server = [codecs |-> PlainCodecs, pendingBatch |-> <<>>, flushed |-> <<>>,
               loggedIn |-> FALSE, startGameSent |-> FALSE, spawnSequenceSent |-> FALSE,
               spawnPhase2Sent |-> FALSE, receivedAuthInput |-> FALSE, spawned |-> FALSE,
               dropped |-> 0]
  /\ \E identity \in Identities :
       client = [codecs |-> PlainCodecs, identity |-> identity, connected |-> TRUE,
                 said |-> [p \in ToServer |-> 0], seen |-> <<>>]
  /\ upstream = <<>>
  /\ downstream = <<>>

-----------------------------------------------------------------------------
(* Sending.  A handler maps the session s to the session it leaves behind; *)
(* s.flushed collects the batches it hands to the socket.                  *)

queueGamePacket(s, p) == [s EXCEPT !.pendingBatch = Append(@, p)]

\* Mutant: every batch is counted, not only the encrypted ones.
FlushCountsPlain(s) ==
  LET c == s.codecs
      batch == Batch(s.pendingBatch, c.compressionEnabled, c.encryptionEnabled,
                     c.sendPacketCounter)
  IN  IF s.pendingBatch = <<>> THEN s
      ELSE [s EXCEPT !.pendingBatch = <<>>,
                     !.flushed = Append(@, batch),
                     !.codecs.sendPacketCounter = @ + 1]

flushGamePackets(s) ==
  LET c == s.codecs
      batch == Batch(s.pendingBatch, c.compressionEnabled, c.encryptionEnabled,
                     c.sendPacketCounter)
  IN  IF s.pendingBatch = <<>> THEN s
      ELSE [s EXCEPT !.pendingBatch = <<>>,
                     !.flushed = Append(@, batch),
                     !.codecs.sendPacketCounter =
                         IF c.encryptionEnabled THEN @ + 1 ELSE @]

sendGamePacket(s, p) == flushGamePackets(queueGamePacket(s, p))

\* Bypasses the queue, compression and encryption.
sendNetworkSettings(s) ==
  [s EXCEPT !.flushed = Append(@, Batch(<<"NetworkSettings">>, FALSE, FALSE, 0)),
            !.codecs.compressionEnabled = TRUE]

sendPlayStatus(s, status) == queueGamePacket(s, status)

sendResourcePacksInfo(s) == sendGamePacket(s, "ResourcePacksInfo")

sendResourcePacksStack(s) == sendGamePacket(s, "ResourcePacksStack")

sendStartGame(s) ==
  flushGamePackets(queueGamePacket(queueGamePacket(s, "StartGame"), "ItemRegistry"))

-----------------------------------------------------------------------------
(* The handlers. *)

initClientEncryption(s) ==
  [s EXCEPT !.codecs = [@ EXCEPT !.sendPacketCounter = 0, !.recvPacketCounter = 0,
                                 !.encryptionEnabled = TRUE]]

\* Mutant: encryption is switched on before the handshake packet goes out.
EncryptsHandshake(s) ==
  IF client.identity = "badKey"
  THEN sendResourcePacksInfo(s)
  ELSE sendGamePacket(initClientEncryption(s), "ServerToClientHandshake")

\* With no usable key the login goes on unencrypted, from ResourcePacksInfo.
sendServerToClientHandshake(s) ==
  IF client.identity = "badKey"
  THEN sendResourcePacksInfo(s)
  ELSE initClientEncryption(sendGamePacket(s, "ServerToClientHandshake"))

handleLogin(s) ==
  LET known == [s EXCEPT !.loggedIn = client.identity # "invalid"]
  IN  IF client.identity \in {"online", "badKey"}
      THEN sendServerToClientHandshake(known)
      ELSE sendResourcePacksInfo(sendPlayStatus(known, "LoginSuccess"))

handleClientToServerHandshake(s) ==
  sendResourcePacksInfo(sendPlayStatus(s, "LoginSuccess"))

\* Mutant: no check that the stage is over.
AlwaysStack(s) == sendResourcePacksStack(s)

handleHaveAllPacks(s) ==
  IF s.startGameSent THEN s ELSE sendResourcePacksStack(s)

\* Mutant: no check that StartGame is out.
StartsAgain(s) == sendStartGame([s EXCEPT !.startGameSent = TRUE])

\* Sends JigsawStructureData and VoxelShapes too, both without content.
completeResourcePackStageAndStartGame(s) ==
  IF s.startGameSent THEN s ELSE sendStartGame([s EXCEPT !.startGameSent = TRUE])

\* Mutant: the burst is queued and left to the next flush.
SpawnUnflushed(s) ==
  IF s.spawnSequenceSent THEN s
  ELSE queueGamePacket(sendPlayStatus([s EXCEPT !.spawnSequenceSent = TRUE], "PlayerSpawn"),
                       "CreativeContent")

sendSpawnSequence(s) ==
  IF s.spawnSequenceSent THEN s
  ELSE flushGamePackets(
         queueGamePacket(sendPlayStatus([s EXCEPT !.spawnSequenceSent = TRUE], "PlayerSpawn"),
                         "CreativeContent"))

handleRequestChunkRadius(s) == sendSpawnSequence(queueGamePacket(s, "ChunkRadiusUpdated"))

\* Returns right after the flag is set: the rest of phase 2, which would make
\* the player "spawned", is switched off in the source.
sendSpawnSequencePhase2(s) == [s EXCEPT !.spawnPhase2Sent = TRUE]

\* Nothing is streamed or broadcast for a player that is not spawned.
handlePlayerAuthInput(s) ==
  [(IF s.spawnSequenceSent THEN sendSpawnSequencePhase2(s) ELSE s)
     EXCEPT !.receivedAuthInput = TRUE]

handleTickSync(s) == sendGamePacket(s, "TickSync")

-----------------------------------------------------------------------------
(* One batch of the client. *)

Become(s) ==
  /\ server' = [s EXCEPT !.flushed = <<>>]
  /\ downstream' = downstream \o s.flushed
  /\ upstream' = Tail(upstream)
  /\ UNCHANGED client

\* The session once the batch is decrypted: the counter moves whether or not
\* the trailer is right.  (It does not for less data than a trailer, which the
\* client never sends; GameBatches has that.)
Decrypted(s) ==
  [s EXCEPT !.codecs.recvPacketCounter = IF s.codecs.encryptionEnabled THEN @ + 1 ELSE @]

CanRead ==
  Readable(Head(upstream), server.codecs.compressionEnabled,
           server.codecs.encryptionEnabled, server.codecs.recvPacketCounter)

\* The next batch holds packet p.
Receive(p) == upstream # <<>> /\ Head(upstream).packets = <<p>>

\* handleBedrockPacket(): a wrong trailer or an undecodable batch is dropped,
\* and the client not told; otherwise handleGamePacket() leaves the session
\* `handled`.
Handle(handled) ==
  Become(IF CanRead THEN handled ELSE [Decrypted(server) EXCEPT !.dropped = @ + 1])

RequestNetworkSettings ==
  Receive("RequestNetworkSettings") /\ Handle(sendNetworkSettings(Decrypted(server)))
Login ==
  Receive("Login") /\ Handle(handleLogin(Decrypted(server)))
ClientToServerHandshake ==
  /\ Receive("ClientToServerHandshake")
  /\ Handle(handleClientToServerHandshake(Decrypted(server)))
HaveAllPacks ==
  Receive("HaveAllPacks") /\ Handle(handleHaveAllPacks(Decrypted(server)))
Completed ==
  Receive("Completed") /\ Handle(completeResourcePackStageAndStartGame(Decrypted(server)))
RequestChunkRadius ==
  Receive("RequestChunkRadius") /\ Handle(handleRequestChunkRadius(Decrypted(server)))
SetLocalPlayerAsInitialised ==
  /\ Receive("SetLocalPlayerAsInitialised")
  /\ Handle(sendSpawnSequencePhase2(Decrypted(server)))
PlayerAuthInput ==
  Receive("PlayerAuthInput") /\ Handle(handlePlayerAuthInput(Decrypted(server)))
TickSync ==
  Receive("TickSync") /\ Handle(handleTickSync(Decrypted(server)))

ServerStep ==
  \/ RequestNetworkSettings \/ Login \/ ClientToServerHandshake \/ HaveAllPacks
  \/ Completed \/ RequestChunkRadius \/ SetLocalPlayerAsInitialised \/ PlayerAuthInput
  \/ TickSync

-----------------------------------------------------------------------------
(* The client. *)

Seen(p) == \E i \in DOMAIN client.seen : client.seen[i] = p
Said(p) == client.said[p] > 0

\* When the join sequence calls for p.
Due(p) ==
  CASE p = "RequestNetworkSettings"      -> TRUE
    [] p = "Login"                       -> Seen("NetworkSettings")
    [] p = "ClientToServerHandshake"     -> Seen("ServerToClientHandshake")
    [] p = "HaveAllPacks"                -> Seen("ResourcePacksInfo")
    [] p = "Completed"                   -> Seen("ResourcePacksStack")
    [] p \in {"RequestChunkRadius", "TickSync"} -> Seen("StartGame")
    [] p \in {"SetLocalPlayerAsInitialised", "PlayerAuthInput"} -> Seen("PlayerSpawn")

\* What a client may send again, or not at all.
Repeatable == {"HaveAllPacks", "Completed", "RequestChunkRadius"}
Optional   == {"TickSync", "PlayerAuthInput"}
JoinAnswers == ToServer \ Optional

ClientSend(p) ==
  /\ client.connected
  /\ Due(p)
  /\ client.said[p] < (IF p \in Repeatable THEN Repeats + 1
                       ELSE IF p \in Optional THEN Repeats ELSE 1)
  /\ LET c == client.codecs
     IN  /\ upstream' = Append(upstream, Batch(<<p>>, c.compressionEnabled,
                                               c.encryptionEnabled, c.sendPacketCounter))
         /\ client' = [client EXCEPT !.said[p] = @ + 1,
                          !.codecs.sendPacketCounter =
                              IF c.encryptionEnabled THEN @ + 1 ELSE @]
  /\ UNCHANGED <<server, downstream>>

\* The first answer the join sequence waits for.
ClientAnswer(p) == client.said[p] = 0 /\ ClientSend(p)

\* The client takes a batch apart and changes its codecs where the server did;
\* a batch it cannot read ends the connection.
ClientReceive ==
  /\ client.connected /\ downstream # <<>>
  /\ LET batch == Head(downstream)
         c == client.codecs
         has(p) == Contains(batch.packets, p)
     IN  IF Readable(batch, c.compressionEnabled, c.encryptionEnabled, c.recvPacketCounter)
         THEN client' =
                [client EXCEPT
                   !.seen = @ \o batch.packets,
                   !.codecs.recvPacketCounter = IF c.encryptionEnabled THEN @ + 1 ELSE @,
                   !.codecs.compressionEnabled = @ \/ has("NetworkSettings"),
                   !.codecs.encryptionEnabled = @ \/ has("ServerToClientHandshake")]
         ELSE client' = [client EXCEPT !.connected = FALSE]
  /\ downstream' = Tail(downstream)
  /\ UNCHANGED <<server, upstream>>

Next == ServerStep \/ ClientReceive \/ \E p \in ToServer : ClientSend(p)

Spec == Init /\ [][Next]_vars

\* The server's loop handles what comes in; the client processes what arrives
\* and answers where the join sequence waits for it.  Nothing obliges it to
\* repeat a request or to send its optional packets.
Fairness == /\ WF_vars(ServerStep)
            /\ WF_vars(ClientReceive)
            /\ \A p \in JoinAnswers : WF_vars(ClientAnswer(p))
FairSpec == Spec /\ Fairness

-----------------------------------------------------------------------------
(* Properties *)

\* Both ends change codecs at the same place of the stream: no batch is ever
\* dropped as undecryptable and none makes the client give up, although each
\* side switches on its own and batches of both directions cross.
CodecsAgree == server.dropped = 0 /\ client.connected

\* The order of the join sequence.
Rank == [p \in ToClient \ {"TickSync", "ChunkRadiusUpdated"} |->
  CASE p = "NetworkSettings"         -> 1
    [] p = "ServerToClientHandshake" -> 2
    [] p = "LoginSuccess"            -> 3
    [] p = "ResourcePacksInfo"       -> 4
    [] p = "ResourcePacksStack"      -> 5
    [] p = "StartGame"               -> 6
    [] p = "ItemRegistry"            -> 7
    [] p = "PlayerSpawn"             -> 8
    [] p = "CreativeContent"         -> 9]

\* Whatever the client repeats and however its requests cross the answers, it
\* never sees the sequence go back ("telling an already-mid-spawn client to go
\* back to resource-pack negotiation", ResourcePackClientResponsePacket.cpp:77)
\* and never sees StartGame or the spawn burst twice (Clients.h:134-152).
JoinOrder ==
  \A j \in DOMAIN client.seen : \A i \in 1..(j - 1) :
    {client.seen[i], client.seen[j]} \subseteq DOMAIN Rank =>
      \/ Rank[client.seen[i]] < Rank[client.seen[j]]
      \/ client.seen[i] = client.seen[j] /\ client.seen[i] = "ResourcePacksStack"

\* A client that asks to join gets as far as the spawn.
ReachesSpawn == Said("RequestNetworkSettings") ~> Seen("PlayerSpawn")

\* Every request for a radius is answered: "Real servers reply with
\* ChunkRadiusUpdated confirming the radius actually granted"
\* (LBBNet/Server/PacketHandler.cpp:81-82).
RadiusAnswered ==
  \A n \in 1..(Repeats + 1) :
    (client.said["RequestChunkRadius"] >= n)
      ~> (Len(SelectSeq(client.seen, LAMBDA p : p = "ChunkRadiusUpdated")) >= n)

\* "PlayStatus(LoginSuccess) is the packet that closes out the Login stage and
\* must go out BEFORE ResourcePacksInfo" (LoginPacket.cpp:395-396).
LoginSuccessFirst == Seen("ResourcePacksInfo") => Seen("LoginSuccess")
=============================================================================
