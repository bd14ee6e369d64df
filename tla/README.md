# LBCore (LiveBedrock Core) in TLA+

LBCore is a Minecraft Bedrock server in C++: a RakNet layer (`LBNet`) under a
game layer (`LBBNet`). This directory holds TLA+ modules that model its
protocol logic, TLC configurations that check them on small instances, and
proofs for every size checked by TLAPS.

    tlc -workers 2 -config MCOrderedDelivery.cfg MCOrderedDelivery.tla
    tlapm OrderedDelivery_proofs.tla

## The system

One thread does everything: `Server.cpp` reads a datagram, `decodePacket()`
(`LBNet/Server/PacketHandler.cpp`) handles it to the end, then the next one is
read. There are no locks and no timers. What is concurrent is outside: several
clients, and a network that loses, repeats and reorders datagrams. The handlers
are therefore atomic actions, and the hard behaviour is in sequences of them.

| Component | State | Operations | Hard behaviour | What makes it correct |
|---|---|---|---|---|
| Session registry (`Clients.cpp`) | `clientStates`, `nextClientIndex` | create on 0x07, look up, remove on 0x15 | clients come, go, vanish and come back; no timeout | sessions do not mix; identifiers unique; a new client starts afresh |
| Acknowledgements (`AcknowledgePacket.cpp`) | `expectedSeq`, `ackedSeqs` | ACK and NACK on each FrameSet | late and repeated datagrams, bounded memory, 24-bit numbers | report what is missing, all of it and nothing else |
| FrameSet receive (`PacketHandler.cpp`, `FrameSetPacket.cpp`) | `splitBuffers` | decode, reassemble, dispatch | repeated fragments, reused ids | a message is put together from its own fragments, once |
| Ordered delivery (`deliverOrdered`) | `nextExpectedOrderingIndex`, `orderedFrameBuffer` | drop, buffer, deliver and drain | reordering; an exception or the end of the session in the middle | the peer's payloads, complete, once, in order |
| Send path (`GamePacketSender.cpp` and the other senders) | `pendingBatch`, four counters, `sentPackets` | queue, flush, fragment, ACK, NACK resend | loss of data, of resends, of the last datagram | the client receives every batch, whole, once, in order |
| Game session (`LBBNet/Server/PacketHandler.cpp`, `LBBNet/Packets`) | codecs, `startGameSent`, `spawnSequenceSent`, `spawnPhase2Sent` | one handler per packet of the join sequence | both sides switch compression and encryption while batches cross; repeated requests | codecs agree; the sequence never goes back; the client gets to the spawn |
| Multiplayer (`Multiplayer.cpp`, `PlayerListPacket.cpp`) | `spawned`, `entityId`, the last position | join, leave, movement and arm swing broadcasts, player list | leave from inside removal; two players' steps interleave; one UUID twice | every client's picture is who is there |
| Chunk streaming (`Multiplayer.cpp`, `LevelChunkPacket.cpp`) | `lastChunkX`, `lastChunkZ`, `sentChunks` | spawn window, window that follows the player, load or generate and save | chunks dropped and met again; stale payloads; failing saves | the client holds the window it was told of, in the current layout |
| Chat (`Chat.cpp`) | `chatWindowStartMs`, `chatWindowCount` | rate limit, broadcast | the limit at the end of a window | bounded flood; nobody silenced for good |
| World (`WorldStorage.cpp`, `LevelDat.cpp`, `RealChunkKeys.cpp`, `main`) | folder, `level.dat`, database, its lock | scan, open or create, load and save a chunk | a crash between two steps; errors that go unnoticed | what was there is kept; a half-made world is not taken for a whole one |
| Offline and control messages (`LBNet/Packets`) | none | answer pings and connection requests, encode frames and records | sizes that do not fit their fields, messages cut short | what is written is read back; nothing is answered that is not RakNet |
| Game batches (`GamePacketSender.cpp`, `Compression.cpp`, `Encryption.cpp`) | cipher positions, two counters | pack, deflate, encrypt and back | one batch lost or twice under encryption | in order, every batch is read as it was queued; no other is |
| Logins (`LoginPacket.cpp`, `JsonLite.cpp`, `PlayerListPacket.cpp`) | the player's name, keys and skin | read the packet and its tokens, show the skin to others | any JSON, any order of claims | a claim is read as it is; a chain is genuine only as a whole |
| Content packets (`LBBNet/Packets`) | none | one send function per packet | a field too many or of another width shifts all that follow | every packet is read to its last byte, and they agree with each other |
| Start (`Config.cpp`, `ServerManager.cpp`, `Server.cpp`) | the configuration, the socket | read settings, advertise, bind, receive | values that do not fit | the server starts with what it can read |
| World formats (`NbtClassic.cpp`, `RealSubChunk.cpp`, `RealChunkKeys.cpp`) | none | read and write NBT, parse keys, decode sub-chunks | cut or foreign data | reading gives back what was written, and refuses what is cut |
| Codecs (`DataTypeHelper.cpp`, `Base64Url.cpp`) | none | read and write integers, strings | boundaries | reading gives back what was written |

Interaction: `decodePacket()` finds the session, acknowledges the datagram
(`DatagramAcks`), puts split frames together (`FrameSets`), hands ordered ones to `deliverOrdered()`
(`OrderedDelivery`), which hands game batches to `handleBedrockPacket()`
(`GameSession`); handlers queue packets that `flushGamePackets()` puts into
datagrams (`SendPath`). `Sessions` has the life of the session around it. Once
a player is spawned, its handlers write to the sessions of others
(`Multiplayer`, `Chat`) and read and write the database (`ChunkStreaming` over
`WorldStorage`), which `main` has opened before the first datagram.

## Modules

| Module | Models | Checked by | Proved in |
|---|---|---|---|
| `ReliableChannel` | abstract: payloads handed over complete, once, in order | target of two refinements: `OrderedDelivery`, `SendPath` | |
| `OrderedDelivery` | `deliverOrdered()`, the exception path of `processFrameContent()`, the end of a session | `MCOrderedDelivery` | `OrderedDelivery_proofs` |
| `DatagramAcks` | `sendACKPacket()`, `checkAndSendNACK()` | `MCDatagramAcks` | `RakNet_proofs` |
| `FrameSets` | the frame loop of `decodePacket()` with split buffers, over `OrderedDelivery` | `MCFrameSets` | `FrameSets_proofs` |
| `GameSession` | handlers and batches from RequestNetworkSettings to the spawn | `MCGameSession` | `GameLayer_proofs` |
| `SendPath` | counters, fragments, `sentPackets`, ACK and NACK from the client | `SendPath` itself | `SendPath_proofs` |
| `Sessions` | `getOrCreateClient()`, `removeClient()`, index and entity id | `MCSessions` | `Sessions_proofs` |
| `Multiplayer` | phase 2's announcement, join, leave, movement and arm swing broadcasts, the player list | `MCMultiplayer` | `Multiplayer_proofs` |
| `Chat` | `handleText()` and its flood guard | `MCChat` | `GameLayer_proofs` |
| `WorldStorage` | `main`, `openOrCreateWorld()`, the scan, `level.dat`, loads and saves, crashes | `MCChunkStreaming` | `ChunkStreaming_proofs` |
| `ChunkStreaming` | phase 2's chunks, `streamChunksAround()`, `sendLevelChunk()`, over `WorldStorage` | `MCChunkStreaming` | `ChunkStreaming_proofs` |
| `Codecs` | integers, varints, zigzag, strings of `DataTypeHelper.cpp` | `FormatChecks` | `RakNet_proofs` |
| `WorldFormats` | NBT, chunk keys, sub-chunks, base64 | `FormatChecks` | |
| `Codecs64` | the 64-bit and floating-point types of `DataTypeHelper.cpp` | `Codecs64` itself | |
| `RakNetWire` | frames, records of ACK and NACK, the messages before and beside a session, byte by byte | `WireChecks` | `RakNet_proofs` |
| `GameBatches` | `flushGamePackets()` and `handleBedrockPacket()` as functions, zlib and AES as what they guarantee | `GameBatches` itself | |
| `LoginData` | a Login packet, its tokens and skin, the player list entry | `LoginChecks` | |
| `Commands` | Text packets and what is left of them, commands and their answers | `CommandChecks` | |
| `Terrain` | block hashes, generated chunks, LevelChunk and SubChunk | `TerrainChecks` | |
| `ContentPackets` | every other packet sent, the small requests read | `ContentChecks` | |
| `ServerConfig` | `server.properties`, the advertisement, socket and loop | `ServerConfig` itself | |
| `*Checks` | assumptions TLC evaluates when it starts: functions against reference definitions and against each other | see below | |

**OrderedDelivery.** `network` is a set that only grows: taking a frame without
removing it is duplication, taking any is reordering, taking none is loss.
`DropStale`, `BufferEarly` and `DeliverAndDrain` are the three branches of
`deliverOrdered()`. The drain loop is one step whose end is `last`, the first
index at which it stops: nothing buffered behind it (`Drained`), a batch that
throws (`Threw`) or a 0x15 that erases the session (`Closed`). After `Closed`
the code goes on with a dangling reference; the model lets the session be
removed or the process be lost ("faulted").

**DatagramAcks.** Datagrams have unbounded numbers in the histories
(`received`, `nacked`) and numbers modulo `SeqSpace` in the code's state.
`Missing` is the loop of `checkAndSendNACK()` as a set.

**FrameSets.** Composes the frame loop with `OrderedDelivery`, whose actions it
uses as they are and whose specification it implements: `sent` there is the ordered
messages here, `network` their payloads put together, `acked` what
`deliverOrdered()` was called with. Messages of other reliabilities go around it;
a malformed batch among them leaves the loop as an ordered one does.
The loop takes one step per frame of `inbox`; everyone else waits until it is
empty, as the handler is not interrupted. A frame knows its message, so a payload
made of fragments of two messages is no payload of the specification. Repeated
frames come back in other datagrams with other neighbours; this also stands for
an ACK that was lost.

**GameSession.** A handler is a function from a session to the session it
leaves, with the batches it flushes. A batch carries what codecs and counter it
was made with; a receiver reads it only with the same ones. This stands for zlib,
AES-CTR and the trailer, which bind a batch to its place in the stream. The
channels are FIFO, which `OrderedDelivery` shows for one direction and
`SendPath` for the other. The client sends one packet per batch, and none so
short that `decryptGamePacket()` returns before it counts the batch
(`Encryption.cpp:267`); `GameBatches` has that case. It may repeat HaveAllPacks,
Completed and RequestChunkRadius while the answers are under way, so that each
"already sent" guard of the handlers decides something.

**SendPath.** A fragment is a byte range of its batch. The client keeps one frame
per reliable index, joins fragments by split id and hands up messages by
ordering index. `sendConnectedPong` and `sendConnectionRequestAccepted` share
some of the counters; a connection request may come, and is answered, at any
time of the session. A flush of several fragments is one step, as nothing is
read from the socket during it.

**Sessions.** A frame above the expected index waits, in the buffer or on the
way; `OrderedDelivery` has the buffer. A client runs through off, asking,
connected, closing, or vanishes. `handled` is the history of the last session of an address.

**Multiplayer.** A handler is a function from all sessions and pictures to what
it leaves. A picture is what the packets sent to a client amount to: the actors
it has, the entries of its player list, and whether it was ever told of an actor
it did not have or had already. `forEachClient()` is `ToOthers`. The position is
one axis, in thousandths. In this build `sendSpawnSequencePhase2()` returns
before it announces anyone (`Phase2Enabled = FALSE`); `Multiplayer`, `Chat` and
`ChunkStreaming` are about the code with that return taken out.

**Chat.** The code only asks whether the time since the window's start exceeds
`kChatWindowMs`; the model keeps that time, up to the first value that does, so
the clock needs no bound. `said` is the history of what was broadcast lately, as ages, oldest first.
Its definitions have names of their own (`ChatSpec` and so on), so that one module can
hold the proofs about it and about `GameSession`.

**WorldStorage and ChunkStreaming.** `phase` is where `main` is; the server can
stop, and its machine with it, between any two steps. Nothing is synced: a crash
may take a chunk back to what was durable and a `level.dat` back to any part of
itself. LevelDB recovers, gives out one handle, and may report an error. The
chunk that is loaded, generated, sent and saved is one step, as the handler is
not interrupted. An input that also releases phase 2 is two steps here, the spawn
and the streaming; they follow each other as in the code.

**Functions and their checks.** The rest of the code has no interleavings of
its own: a handler's bytes in, bytes and a state out. These modules are
functions on sequences of bytes, with the reader's offset and its error as
results. Each has assumptions, at its end or in a `*Checks` module of its own,
that write, read back with a reader written from the layout the source
describes, cut the data short at every place, and compare packets with each
other. TLC evaluates them when it starts on the model that extends them:

| Model | Evaluates |
|---|---|
| `MCChunkStreaming` | `FormatChecks` (`Codecs`, `WorldFormats`) |
| `MCDatagramAcks` | `WireChecks` (`RakNetWire`) |
| `MCSessions` | `GameBatches` |
| `MCOrderedDelivery` | `LoginChecks` (`LoginData`) |
| `MCChat` | `CommandChecks` (`Commands`) |
| `MCMultiplayer` | `TerrainChecks` (`Terrain`) |
| `MCFrameSets` | `ContentChecks` (`ContentPackets`) |
| `MCGameSession` | `ServerConfig` |

The assumptions about 64-bit words are at the end of `Codecs64` and are evaluated
with every module above that extends it.

**Codecs, Codecs64, WorldFormats.** A 64-bit word is its bits, since TLC's
integers have 32; a float is its bits too. `Codecs` has no recursion and is
proved about; `WorldFormats` is recursive and only evaluated. Sub-chunk decoding
is compared with a definition of its own, since nothing in the code writes
sub-chunks.

**RakNetWire.** The bytes that `FrameSets`, `SendPath`, `DatagramAcks` and
`Sessions` abstract from. A frame's reader takes the header's parts in the order
of the code and says where the next frame begins.

**GameBatches.** Bytes under a cipher are the bytes with the place in the key
stream they were made at; deflated data is an envelope that only inflating
opens. `GameSession` rests on what `GameBatches` evaluates: a batch is read
exactly with the codecs and the counter it was made with.

**LoginData.** JSON is a sequence of tokens, because the code searches text and
finds nothing inside a string but its end. A JWT is its payload and the key it
was signed with; `extractLoginIdentity()` yields the identities of `GameSession`.

**Commands, Terrain, ContentPackets, ServerConfig.** Texts that nothing
compares are single bytes of their own. `Terrain` computes FNV-1a in two halves
of 16 bits. A layout of `ContentChecks` is a list of field types from the
source's comments; a packet must be read by it to its last byte. `std::stoi` is
a table of a few numerals.

## Runs

| Run | Shows |
|---|---|
| `ordered_delivery` | implements the channel; the buffer holds only future payloads at their own index; every payload before a malformed one is handled |
| `malformed_batch` (violation) | a bad length prefix throws outside the per-packet `try`; the index never advances and the channel stalls |
| `datagram_acks` | NACKs name only missing datagrams, and all of them; `ackedSeqs` forgets only what is out of reach |
| `game_session` | no batch is ever unreadable; the join order holds under repetition; the spawn is reached |
| `second_radius` (violation) | the answer to a second RequestChunkRadius is never flushed |
| `send_path` | implements the channel towards the client; whatever was not received is still kept, unchanged; the last batch is recovered too |
| `frame_sets` | implements `OrderedDelivery`; split buffers never mix messages or keep a complete one; what was acknowledged is handled or kept; every message is handled in the end |
| `sessions` | unique identifiers, own frames only, service after a reconnect |
| `reconnect` (violation) | after a client vanished, the next one at its address is given the old counters and never served |
| `multiplayer` | each client is shown exactly who is there, is told of no actor it does not have, has their list entries, and sees nobody far from where they are |
| `chat` | at most twice the limit in any window's time; only those who wrote that much are silenced, and not for good |
| `world` | the client holds the window it was told of, only current payloads, and what it has is saved; no start spoils or trusts a half-made world, or is locked out by the scan; `FormatChecks` |

Three more configurations end in a counterexample and are kept for the reader:

- `OrderedDelivery_wrap.cfg` (with `MCOrderedDelivery`): `EveryIndexPassed` fails
  when the peer goes on after index 2^24 - 1. The index on the wire has 24 bits,
  `nextExpectedOrderingIndex` (`LBNet/Server/PacketHandler.cpp:94`) counts on,
  and every later frame is dropped as one already delivered.
- `DatagramAcks_wrap.cfg` (with `MCDatagramAcks`): `NacksOnlyMissing` fails after
  the sequence number wraps. `ackedSeqs` is cut down by erasing its smallest
  number, which then is the newest, so datagrams that came in are reported
  missing; `AcknowledgePacket.h:18-20` says a NACK names what has not been acked.
- `GameSession_login.cfg` (with `MCGameSession`): `LoginSuccessFirst` fails when no
  shared secret can be derived. The fallback (`HandshakePacket.cpp:22`) sends
  ResourcePacksInfo without PlayStatus(LoginSuccess), which "must go out BEFORE
  ResourcePacksInfo" (`LoginPacket.cpp:395-396`).

### Bounds

- `ordered_delivery`: 5 frames, 4 payloads (two ordinary, one malformed, one
  closing), window 5: gaps of every shape up to four frames, an end of each
  kind inside a drain.
- `datagram_acks`: 8 datagrams; `Kept`, `NackLimit`, `Lag` and `Ahead` stand in the
  relations of the code's limits (1000 and 1000), small enough that eviction
  and late datagrams happen. Gaps of `NackLimit` and more, which the code ignores, do not
  occur in it.
- `game_session`: each kind of login, one repetition of every packet that may be
  repeated; two requests of a kind are enough to cross each other's answers.
- `send_path`: two batches of one and two fragments, one connection request before,
  between or behind them, one lost transmission (of a fragment, a pong, a resend or the
  answer to the request), one pong after a batch for every loss. `SendPath_proofs` has
  any number of requests.
- `frame_sets`: two messages of any two of seven kinds (ordered or not, one or two
  fragments, malformed in order or not, closing) in up to four datagrams of one or two frames, at most one of
  them a repetition: fragments of two messages interleave, come again after
  reassembly and share datagrams. `SplitIds` exceeds the number of messages; with
  fewer, `ImplementsOrdering` fails, because a fragment repeated after reassembly waits for the
  next message with its id (2^16 split messages later in the code).
  Longer gaps are in `ordered_delivery`.
- `multiplayer`: three players over four sessions, two identities (the zero UUID
  and another, so that two players share one), one player that moves over five
  positions with an update every third input: each order of two joins, a leave
  and a return, and a drift up to the last unforwarded step.
- `chat`: two players, a limit of two in three milliseconds: a window begins,
  fills, is exceeded and ends at every time against the other player's.
- `world`: windows of radius 1 around three places of a walk that overlap, two
  chunks that may be stored before, undone or fail, two crashes and one error: a start can
  be cut off, repeated and cut off again. Sizes of `level.dat` are 2 + 2 bytes.
- The `*Checks` modules: 64-bit words of one bit, of a run of bits and of
  alternating ones; frames of all eight reliabilities in pairs; streams of three
  batches out of four; chains of up to three links over three keys; texts of up to
  four bytes out of seven kinds; every packet of the game layer.
- `FormatChecks`: numbers at the ends of each length of a varint (up to
  2^31 - 1, TLC's largest; the theorems of `RakNet_proofs` have the rest), strings to three bytes, compounds of one entry of
  every kind, cut at every byte, sub-chunks of 20 blocks in place of 4096.
- `sessions`: two addresses, three connections, two frames each and one client
  that vanishes: all orders of come, go and come back.

### Fairness

The server's loop handles what comes in: weak fairness of its steps. RakNet
peers repeat a reliable frame until it is acknowledged: weak fairness of
receiving a frame that was not acknowledged, and of none after that; strong
fairness in `FrameSets`, where receiving is disabled while a datagram is handled.
The client
answers where the join sequence waits for it, but nothing obliges it to send an
optional packet or repeat one. In `SendPath` the client keeps pinging and
keeps asking for what it misses, oldest first; the server itself has no timer
and owes nothing but the answers. Finitely many transmissions are lost.
In `Chat`, time passes and a player keeps writing; `KeepsBeingHeard` is about a
player who does.

## Proofs

`OrderedDelivery_proofs`:

- `TypeCorrect`: `Spec => []TypeOK`, for all constants.
- `OrderingCorrect`: `Spec => []BufferMatchesPeer`, and
  `DeliveryImplementsChannel`: `Spec => Channel!Spec`, both for
  `MaxSent <= IndexSpace`: the peer does not use an index twice.
  (`OrderedDelivery_wrap.cfg` shows what happens when it does.) The inductive invariant adds that a
  frame of the network carries the payload the peer sent at its index, and that
  what was delivered is a prefix of what was sent; without the first, a step that
  buffers a frame would prove nothing about its payload. `DrainFacts` says
  what one drain appends. Each step then is a `Send`, a `Deliver` of as many
  payloads as it appends, or a stutter of the channel.

`RakNet_proofs` has the bookkeeping of `DatagramAcks`:

- `AcksCorrect`: type invariant, `NacksOnlyMissing`, `GapsReported` and
  `ForgetsOnlyTheOld` for every window with
  `MaxSent < SeqSpace`, `Lag + NackLimit <= SeqSpace`, `Lag <= Kept`,
  `Lag + Ahead <= NackLimit`. The inductive invariant relates the expected
  number to a datagram that came in at most `Lag` before the latest, so that
  the gap of the code's arithmetic is the real one (`MissingFacts`), and bounds what
  may leave `ackedSeqs` (`AckFacts`).

Of the bytes it first has the integers and strings of `Codecs` that everything else is
written in, for all 32-bit numbers, packets and places in them:

- `VarIntRoundTrip` and `CutVarIntRefused`: what `writeVarInt()` wrote is read
  back and the offset goes past it; cut short, it is an error. A number is put together
  from its groups of seven bits (`Digits7`, `GroupsMakeUp`), and the length is
  where the first group without a continuation bit is (`TopBit`, `OneEnd`).
- `ZigZagRoundTrip`, `StringRoundTrip`, `UIntRoundTrip` rest on these and on the
  slices of a packet (`SliceOfBytes`).

and then the frames of `RakNetWire`:

- `FrameReadBack`: for every frame with its fields in range and a payload up to
  8191 bytes, anywhere in a datagram, the decoder reads what the encoder wrote
  and goes on behind it. One lemma per part of the header (`ReliableFacts` and so
  on) says where it stands and what its reader makes of it.
- `FragmentsReadBack`: `maxFragmentSize(mtu)` is such a payload for every
  `mtu <= 8259`. The MTU is not limited (`OpenConnectionRequest2.cpp:36-37`);
  `WireChecks!FragmentLengths` has what happens above.

`FrameSets_proofs`, for all kinds of messages, any grouping of frames into
datagrams and any losses and repetitions, as long as the peer's split ids do not come
round (`MaxMessages <= SplitIds`; after 65536 split messages the fragment left over
from an old one would be taken into a new one):

- `TypeCorrect`, `ReassemblyCorrect` (`BuffersOfOneMessage`), `NothingAckedIsLost`
  (`AckedIsKept`), `LoopImplementsOrdering` (`ImplementsOrdering`), and from it
  `LoopImplementsChannel`: the loop with its split buffers is a reliable ordered channel.
- Order indices and split ids are numbers of messages of a kind
  sent before (`Count`), so that an index names one message (`NumberedLog`) and
  each index below the number of ordered messages is used (`IndexedLog`). A split buffer
  belongs to the one split message with its id (`BuffersMatch`), so that what `Reassembled`
  yields is that message (`ReassembledWhole`) and nothing else reaches
  `deliverOrdered()`; there the invariant of `OrderedDelivery_proofs` holds under the
  substitution, and its lemmas are cited from it.
- `AckedIsKept` speaks of the time between two datagrams. The invariant has
  its form for every state, `AckedIsKeptOrNext`: a frame acknowledged was handled,
  waits in a buffer or is still ahead of the loop. That a message waiting in the
  order buffer is not forgotten there is `NothingForgotten` of `OrderedDelivery_proofs`.

`GameLayer_proofs` has `GameSession`, for every set of ways to log in and any `Repeats`:

- `TypeCorrect`, `CodecsCorrect` (`CodecsAgree`), `OrderCorrect` (`JoinOrder`). No
  conjunct of these is inductive by itself: that the next batch can be read depends
  on every batch before it. The inductive invariant has two parts.
- Up to the handshake the two sides take turns, and a stage says all there is on its way
  (`Greeting`, `Negotiated`, `LoggingIn`, `Shaking`, `Shaken`): a single batch, made with the
  codecs the other side has when it arrives. `GreetingStep` to `ShakenStep` lead
  from one to the next, or past the handshake for the logins without a key.
- In the stage `Streaming` batches cross. Each has the number the other
  end will expect at its place (`UpstreamAgrees`, `DownstreamAgrees`) and the counters
  differ by what is on its way (`CountersAgree`). What is on its way is in order, in a
  batch and between batches, behind what was seen (`SentInOrder`), and
  `startGameSent` and `spawnSequenceSent` bound the ranks of all of it
  (`FlagsBound`), where a radius is asked for only after `startGameSent`, so that the
  spawn burst cannot overtake StartGame. `Proceeds` is what all handlers of this
  stage have in common; each is shown to be of that form, and `StreamingAnswered` does
  the rest once.

and `Chat`, for any players, limit and window:

- `FloodCorrect` (`FloodBounded`), `ClosingCorrect` (`ClosedOnlyToFloods`),
  `ChatTypeCorrect`. That twice the limit is a bound says nothing of which messages
  go when time passes. The inductive invariant (`Guarded`) divides what went out lately into
  the messages older than the guard's window, at most the limit, and those the window counts
  (`Windows`). Time takes from the first part only, as long as the window lasts
  (`TimePasses`); once it is over there is no first part, so that a new window may
  put all there is into it (`WindowStarts`). `OlderFacts` rests on the messages being
  in the order of their ages (`FirstOnes`).

`Multiplayer_proofs`, for any number of addresses, identities, players and
sessions and any distance:

- `TypeCorrect`, `PicturesCorrect` (`PictureMatches`, `NeverConfused`),
  `ListsCorrect` (`PlayerListMatches`), `PositionsCorrect` (`PositionsFollow`). The
  inductive invariant `Good` has five parts. `WorldOK`: types, and each session's entity
  id is its own. `Matching`: a spawned client's actors are the other spawned
  players. `Calm`: nobody was confused. `Listing`: a list has only UUIDs of players that are there, and all
  of them but those that two players shared. `Close`: a player's position and the one
  forwarded last are at most `Epsilon` apart for each input since the last
  forced update, of which every `Interval`-th input is one. `PictureMatches` alone is not inductive: a leave
  removes the right actor only because ids are unique, and a drift is bounded only
  by counting the inputs.

`SendPath_proofs`, for every MTU, all batch sizes and any number of losses:

- `TypeCorrect`, `LossesRepairable` (`LossRepairable`) and `SendImplementsChannel`:
  `Spec => Channel!Spec`. `PartsJoin` says that the fragments of a batch make it
  up again, from the rounding of `SplitCount`. The inductive invariant has that
  every frame kept, under way or at the client is a fragment of the batch with
  its ordering index, and that a split id belongs to one batch (`FramesInv`), that a
  number stands for one datagram and what is not kept has come in (`NumbersInv`), and
  that the client has a prefix of the batches (`DeliveredInv`). The model's counters do not come round: the
  theorems are about sessions of less than 2^24 datagrams and frames and 2^16 split batches.

`Sessions_proofs`, for any addresses, connections and frames:

- `TypeCorrect`, `OwnFrames` (`OwnFramesInOrder`), and `DifferentIdentifiers`
  (`IdentifiersUnique`), the last for `MaxConnects <= IndexSpace`: the client
  index does not come round while it is in use. The inductive invariant has a
  part for each address, `AddressInv`: a request is alone on its way (`Asking`), what is
  on its way was sent by the client that is there (`SentByClient`), and a session
  is behind that client and ends with it (`OfClient`). Unique indexes alone
  would not be inductive, since a request still under way will take the next index;
  `Counted` counts those requests with the sessions made.

`ChunkStreaming_proofs`, for any chunks and windows, any number of crashes and
errors and any sizes of `level.dat`; it needs no assumption:

- `TypeCorrect`, `WindowComplete` (`WindowHeld`), `ChunksCurrent` (`NothingStale`,
  `SavedAsSent`), `LevelDatSafe` (`LevelDatKept`, `UnfinishedNotTrusted`) and
  `DatabaseFree` (`ServesWithDatabase`). The inductive invariant adds what holds
  while the server starts (`StartInv`: nobody has the database, and `level.dat` is
  written only where there was none) and that a client holds chunks only of
  a server that serves (`SessionInv`), so that a crash takes both away at once.

Every safety property the passing runs check, the refinements included, is stated by
a theorem. Only model-checked: liveness (`EveryPayloadDelivered`, `ReachesSpawn`,
`EveryBatchDelivered`, `EveryMessageHandled`, `ServedAfterClose`, `KeepsBeingHeard`),
which needs fairness and ENABLED, and what recursive definitions compute, for which
induction over data would be needed.

## Findings

The violation runs, each with the text it contradicts, are listed in
`PROJECT.json`; three more are under Runs. Of the following no run is needed:

- `sendSpawnSequencePhase2()` returns right after setting its flag, so no player
  is ever `spawned` and the multiplayer code is unreachable in this build.
- The exception of `malformed_batch` also leaves the frame loop, so the other frames of
  an acknowledged datagram are lost with it: `AckedIsKept` and
  `EveryMessageHandled` hold only without malformed batches.

- `readLevelDat()`'s comment (`LevelDat.h:24-28`) has callers fall back to a fresh
  `level.dat` when the file is not valid. `openOrCreateWorld()` writes one only
  when there is none: a file cut short by a crash stays as it is
  (`LevelDatKept`), is reported at every start, and nothing depends on it.
- `Chat.cpp:16` says "at most kChatMaxInWindow messages per kChatWindowMs"; the window
  starts with a message, so that up to twice as many can pass in that time
  (`FloodBounded` has the bound that holds).
- `Multiplayer.h:34-35` has the removal hook run "on any disconnect/timeout";
  there is no timeout, so a player who vanishes stays for everyone.
- With two players of one UUID (the zero UUID of logins without one), the first
  to leave takes the entry of the other from every player list
  (`PlayerListMatches` excuses exactly those).
- `decodeOneBlockStorage()` with 32 bits per block makes its mask by shifting a
  word by its own width, which C++ leaves undefined; `WorldFormats` reads the whole word.

What the functions' checks show, each in the assumption named:

- RakNet (`WireChecks`): of an ACK or a NACK only the first number of the first
  record counts (`AcknowledgementsRead`). A ping shorter than its time is
  answered with a pong whose fields are shifted (`PingAnswered`); an
  OpenConnectionRequest2 without its last part is answered with an MTU read from
  other fields (`OnlyRakNetAnswered`).
- Batches (`GameBatches`): an encrypted batch lost or doubled is the end of the
  conversation, nothing starts it over (`NothingAfterAGap`); a length that cannot be
  read is thrown past the per-packet `try` (`LyingLengths`). Comments call the
  cipher CFB8 (`Encryption.h`); the code uses CTR.
- Logins (`LoginChecks`): `jsonExtractString()` takes the next string for a claim
  that is none (`WrongType`) and finds a key in an earlier value of the same
  text (`NameLikeAKey`). A cape's sides and pixels are passed on unchecked
  (`EntriesRead`), and so are skin sizes that are no preset, which
  `PlayerListPacket.cpp:146-149` says a client hangs on.
- Chat (`CommandChecks`): `sanitizeChat()` (`Chat.cpp:24-26`) forms a section sign
  from the halves around what it removes, in text that is not UTF-8
  (`HalvesMeet`); its cap can leave half of a character or a space at the end
  (`CappedText`). The list of commands that is empty has a count too many
  for the layout above it (`NinthList`).
- Content (`ContentChecks`): a negative radius is granted as it is asked for
  (`RadiusBounded`).
- Configuration (`ServerConfig`): the port wraps around (`PortIsAPort`), the second
  port advertised is 65536 if the first is 65535, and a `;` in a text shifts all fields
  after it (`AdvertisementIsRead`). The advertised number of players is always 0.

## Not modelled

- `ItemRegistryData.cpp`: 4000 lines of a table of items without behaviour, whose
  bytes `ContentPackets` takes as they are; the vendored LevelDB headers and the build files.
- zlib, AES, ECDH, ES384 and `std::stoi` themselves: external; what they guarantee is
  in `GameBatches`, `LoginData` and `ServerConfig`, marked external in `PROJECT.json`.
- A disconnection notification outside the ordering channel: RakNet sends it in order
  (`KindsAssumption` of `FrameSets`). One that came otherwise would erase the session
  with the frame loop still running, as `Closed` does.
- A second Login or RequestNetworkSettings in one session, and several packets in
  one batch of `GameSession`'s client.
- Handshake datagrams that outlive their handshake, and peers that go silent other than
  in `Sessions`: nothing in the code times them out.
- Logging and the debug prints. `stopServer()` is never called, and the loop
  blocks in `recvfrom`: the shutdown behind it is modelled as a function only
  (`disconnectAllClients`).
- `sendSetSpawnPosition`, `sendLevelEvent`, `sendGameRulesChanged`, `sendSetTime`,
  `sendUpdatePlayerGameType` and the empty biome list have their layout in
  `ContentPackets`; nothing in the code calls them.
- Of `PlayerAuthInput`'s extended fields only the tick is used, to pace
  the publisher updates (`due` in `ChunkStreaming`).
- Wrap of the outgoing counters: 2^24 datagrams, 2^16 fragmented batches.
