----------------------------- MODULE TerrainChecks -----------------------------
(* The terrain as a client takes it from its bytes; TLC evaluates these     *)
(* assumptions when it starts on a module that extends this one.            *)
EXTENDS Terrain

\* FNV-1a of the texts its authors give: nothing, "a", "foobar".
ASSUME KnownHashes ==
  /\ fnv1a32(<<>>) = <<33052, 40389>>
  /\ fnv1a32(<<97>>) = <<58380, 10540>>
  /\ fnv1a32(<<102, 111, 111, 98, 97, 114>>) = <<49052, 63848>>

minecraft == <<109, 105, 110, 101, 99, 114, 97, 102, 116, 58>>
unknown   == minecraft \o <<117, 110, 107, 110, 111, 119, 110>>
air       == minecraft \o <<97, 105, 114>>
bedrock   == minecraft \o <<98, 101, 100, 114, 111, 99, 107>>
dirt      == minecraft \o <<100, 105, 114, 116>>
grass     == minecraft \o <<103, 114, 97, 115, 115, 95, 98, 108, 111, 99, 107>>
infiniburn_bit ==
  [key |-> <<105, 110, 102, 105, 110, 105, 98, 117, 114, 110, 95, 98, 105, 116>>,
   value |-> [type |-> TagByte, is |-> 0]]

Palette ==
  <<computeBlockHash(air, <<>>, unknown), computeBlockHash(bedrock, <<infiniburn_bit>>, unknown),
    computeBlockHash(dirt, <<>>, unknown), computeBlockHash(grass, <<>>, unknown)>>

State(key, value) == [key |-> key, value |-> value]
SomeStates ==
  {State(<<97>>, [type |-> TagInt, is |-> 7]), State(<<97, 98>>, [type |-> TagByte, is |-> -1]),
   State(<<98>>, [type |-> TagString, is |-> <<120>>]), State(<<90, 122>>, [type |-> TagByte, is |-> 1])}

\* A block has one name: its states may be given in any order.  Another value, another
\* type of the same value, or one state less is another block.
ASSUME OneNameEach ==
  /\ \A order, other \in SetToSeqs(SomeStates) :
       computeBlockHash(dirt, order, unknown) = computeBlockHash(dirt, other, unknown)
  /\ Cardinality({Palette[i] : i \in DOMAIN Palette}) = 4
  /\ Cardinality({computeBlockHash(bedrock, states, unknown) :
       states \in {<<>>, <<infiniburn_bit>>, <<[infiniburn_bit EXCEPT !.value.is = 1]>>,
                   <<[infiniburn_bit EXCEPT !.value.type = TagInt]>>}}) = 4
  /\ computeBlockHash(unknown, <<infiniburn_bit>>, unknown) = <<65535, 65534>>

-----------------------------------------------------------------------------
(* The client's side: a sub-chunk's index, the hash at each position, and   *)
(* the offset behind it.                                                    *)

TwoBits(data, start, position) ==
  (data[start + 1 + position \div 4] \div <<1, 4, 16, 64>>[(position % 4) + 1]) % 4

RECURSIVE HashesAt(_, _, _)
HashesAt(data, offset, n) ==
  IF n = 0 THEN [hashes |-> <<>>, offset |-> offset]
  ELSE LET word == readZigZag64(data, offset)
           rest == HashesAt(data, word.offset, n - 1)
       IN  [hashes |-> <<word.value>> \o rest.hashes, offset |-> rest.offset]

ReadSubChunk(data, offset) ==
  LET words   == offset + 4
      count   == readZigZag32(data, words + 1024)
      palette == HashesAt(data, count.offset, count.value)
      index   == readByte(data, offset + 2).value
  IN  IF data[offset + 2] = 0
      THEN [index |-> index, block |-> [p \in 0..4095 |-> HashWord(Palette[1])], offset |-> offset + 3]
      ELSE [index |-> index, block |-> [p \in 0..4095 |-> palette.hashes[TwoBits(data, words, p) + 1]],
            offset |-> palette.offset]

RECURSIVE SubChunksAt(_, _, _)
SubChunksAt(data, offset, n) ==
  IF n = 0 THEN [chunks |-> <<>>, offset |-> offset]
  ELSE LET first == ReadSubChunk(data, offset)
           rest  == SubChunksAt(data, first.offset, n - 1)
       IN  [chunks |-> <<first>> \o rest.chunks, offset |-> rest.offset]

\* A player spawns at x = 0, y = 4, z = 0.
SpawnAt   == <<0, 4, 0>>
Position(at) == 256 * at[1] + 16 * at[3] + at[2]
Below(at) == <<at[1], at[2] - 1, at[3]>>
Above(at) == <<at[1], at[2] + 1, at[3]>>

\* The sub-chunks of a chunk are those from the lowest index on without a gap, 24
\* sections of biome follow them, then the border's count, and nothing more.  Whoever
\* spawns stands on grass, with two blocks of air for the body.
ASSUME ChunkReadBack ==
  LET payload == GeneratedPayload(Palette)
      read    == SubChunksAt(payload, 0, kInlineSubChunkCount)
      ground  == read.chunks[kTerrainSubChunkIndex - kLowestSubChunkIndex + 1]
  IN  /\ \A i \in DOMAIN read.chunks : read.chunks[i].index = kLowestSubChunkIndex + i - 1
      /\ Len(payload) = read.offset + 1 + 1 + (kOverworldSubChunkSections - 1) + 1
      /\ \A i \in (read.offset + 3)..(Len(payload) - 1) : payload[i] = 255
      /\ ground.index = SpawnAt[2] \div Width
      /\ ground.block[Position(Below(SpawnAt))] = HashWord(Palette[Grass + 1])
      /\ ground.block[Position(SpawnAt)] = HashWord(Palette[Air + 1])
      /\ ground.block[Position(Above(SpawnAt))] = HashWord(Palette[Air + 1])
      /\ \A x, z \in 0..15 : ground.block[Position(<<x, 0, z>>)] = HashWord(Palette[Bedrock + 1])

\* What is generated is taken for current when it is loaded again; the older layout,
\* which began with the ground, and what is cut short are not.
ASSUME OwnPayloadIsCurrent ==
  /\ isCurrentPayload(GeneratedPayload(Palette))
  /\ \A n \in 0..2 : ~isCurrentPayload(SubSeq(GeneratedPayload(Palette), 1, n))
  /\ ~isCurrentPayload(<<9, 1, 5>>)
  /\ ~isCurrentPayload(appendTerrainSubChunk(0, Palette))

\* The packet says how many sub-chunks there are, and how long they are.
ASSUME PacketReadBack ==
  \A at \in {-9, 0, 70} \X {-1, 4} :
    LET payload == GeneratedPayload(Palette)
        packet  == LevelChunkPacket(at, payload)
        x       == readZigZag32(packet, 1)
        z       == readZigZag32(packet, x.offset)
        count   == readVarInt(packet, z.offset + 1)
        length  == readVarInt(packet, count.offset + 3)
    IN  /\ <<x.value, z.value>> = at
        /\ count.value = kInlineSubChunkCount
        /\ SubSeq(packet, length.offset + 1, Len(packet)) = payload
        /\ length.value = Len(payload)

-----------------------------------------------------------------------------
(* Sub-chunks on request *)

ClientAsks(base, offsets) ==
  writeZigZag32(0) \o writeInt(base[1]) \o writeInt(base[2]) \o writeInt(base[3])
    \o writeVarInt(Len(offsets))
    \o FlattenSeq([i \in DOMAIN offsets |->
         writeByte(offsets[i][1]) \o writeByte(offsets[i][2]) \o writeByte(offsets[i][3])])

RECURSIVE EntriesAt(_, _, _)
EntriesAt(packet, offset, n) ==
  IF n = 0 THEN [entries |-> <<>>, offset |-> offset]
  ELSE LET length == readVarInt(packet, offset + 5)
           rest   == EntriesAt(packet, length.offset + length.value + 5, n - 1)
       IN  [entries |-> <<[delta   |-> [k \in 1..3 |-> readByte(packet, offset + k - 1).value],
                           payload |-> SubSeq(packet, length.offset + 1, length.offset + length.value)]>>
                          \o rest.entries,
            offset  |-> rest.offset]

Asked == {<<>>, <<(<<0, 0, 0>>)>>, <<(<<1, -4, -1>>), (<<-128, 0, 127>>), (<<0, 1, 0>>), (<<0, -1, 0>>)>>}

\* Each sub-chunk asked for is answered, in its order, with the bytes the whole chunk has
\* there; the one at the ground's height is the ground whatever the base is.
ASSUME AnswersWhatIsAsked ==
  \A base \in {<<0, 0, 0>>, <<-5, -4, 70>>, <<2147483647, 3, 0>>}, offsets \in Asked :
    LET request == SubChunkRequest(ClientAsks(base, offsets), 0)
        packet  == sendSubChunkResponse(request, Palette)
        dimension == readZigZag32(packet, 3)
        count   == readVarInt(packet, dimension.offset + 12)
        read    == EntriesAt(packet, count.offset, count.value)
    IN  /\ request.whole /\ request.base = base /\ request.offsets = offsets
        /\ \A k \in 1..3 : readInt(packet, dimension.offset + 4 * (k - 1)).value = base[k]
        /\ read.offset = Len(packet)
        /\ [i \in DOMAIN read.entries |-> read.entries[i].delta] = offsets
        /\ \A i \in DOMAIN offsets :
             LET chunk == ReadSubChunk(read.entries[i].payload, 0)
             IN  /\ chunk.index = base[2] + offsets[i][2]
                 /\ chunk.offset = Len(read.entries[i].payload)
                 /\ chunk.index = kTerrainSubChunkIndex
                      <=> chunk.block[Position(<<3, 0, 9>>)] = HashWord(Palette[Bedrock + 1])

\* A request that ends early has no answer, not one to the offsets that are there.
ASSUME NoPartIsAnswered ==
  LET data == ClientAsks(<<1, 2, 3>>, <<(<<0, 0, 0>>), (<<0, 1, 0>>)>>)
  IN  \A n \in 0..(Len(data) - 1) : ~SubChunkRequest(SubSeq(data, 1, n), 0).whole
=============================================================================
