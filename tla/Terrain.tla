------------------------------- MODULE Terrain -------------------------------
(***************************************************************************)
(* The terrain a client is sent: a flat layer of bedrock, dirt and grass   *)
(* (LBBNet/Packets/LevelChunkPacket.cpp), whole chunks of it or the        *)
(* sub-chunks a client asks for (SubChunkPacket.cpp, PacketHandler.cpp),   *)
(* its blocks named by a hash of their NBT (BlockHash.cpp).  Which chunks  *)
(* are sent, and what is stored of them, is in ChunkStreaming.             *)
(*                                                                         *)
(* A hash is its two halves of 16 bits, the higher first.                  *)
(***************************************************************************)
EXTENDS Codecs64, SequencesExt

(* Block hashes *)

\* The bits of two bytes that differ.
XorByte(b, c) ==
  LET bit(j) == Weight[j + 1] * Differ(BitOf(b, j), BitOf(c, j))
  IN  bit(0) + bit(1) + bit(2) + bit(3) + bit(4) + bit(5) + bit(6) + bit(7)

FnvBasis == <<33052, 40389>>   \* 0x811c9dc5

\* hash *= 2^24 + 403, modulo 2^32.
TimesPrime(hash) ==
  LET low == 403 * hash[2]
  IN  <<(403 * hash[1] + low \div 65536 + 256 * (hash[2] % 256)) % 65536, low % 65536>>

\* hash ^= b, and the multiplication.
Hash == (0..65535) \X (0..65535)
Mix  == [h \in Hash, b \in Byte |->
           TimesPrime(<<h[1], 256 * (h[2] \div 256) + XorByte(h[2] % 256, b)>>)]

fnv1a32(data) ==
  LET hash[i \in 0..Len(data)] == IF i = 0 THEN FnvBasis ELSE Mix[hash[i - 1], data[i]]
  IN  hash[Len(data)]

writeNbtString(s) == writeUShort(Len(s)) \o s

\* The tags of the states' values.
TagByte     == 1
TagInt      == 3
TagString   == 8
TagCompound == 10
TagEnd      == 0

ValueBytes(value) ==
  CASE value.type = TagByte   -> writeByte(value.is)
    [] value.type = TagInt    -> writeInt(value.is)
    [] value.type = TagString -> writeNbtString(value.is)

\* The order of two keys: the first byte that differs, or the length.
Precedes(s, t) ==
  \E i \in 1..(Len(t)) : /\ \A k \in 1..(i - 1) : k <= Len(s) /\ s[k] = t[k]
                         /\ i > Len(s) \/ s[i] < t[i]

NameKey   == <<110, 97, 109, 101>>
StatesKey == <<115, 116, 97, 116, 101, 115>>

BlockNbt(name, states) ==
  LET sorted == SortSeq(states, LAMBDA s, t : Precedes(s.key, t.key))
  IN  <<TagCompound, 0, 0, TagString>> \o writeNbtString(NameKey) \o writeNbtString(name)
        \o <<TagCompound>> \o writeNbtString(StatesKey)
        \o FlattenSeq([i \in DOMAIN sorted |->
             <<sorted[i].value.type>> \o writeNbtString(sorted[i].key) \o ValueBytes(sorted[i].value)])
        \o <<TagEnd, TagEnd>>

\* -2 is what all clients call the block that has no name.
computeBlockHash(name, states, unknown) ==
  IF name = unknown THEN <<65535, 65534>> ELSE fnv1a32(BlockNbt(name, states))

\* A hash as a signed number: its 32 bits, the sign above them.
HashWord(hash) ==
  [k \in 0..63 |-> IF k < 16 THEN (hash[2] \div 2 ^ k) % 2
                   ELSE (hash[1] \div 2 ^ (IF k < 32 THEN k - 16 ELSE 15)) % 2]

\* writeZigZag32 of it: a signed value has the same bytes in both widths.
writeHash(hash) == writeZigZag64(HashWord(hash))

-----------------------------------------------------------------------------
(* Sub-chunks: 16 by 16 by 16 blocks, x first, y last. *)

kOverworldSubChunkSections == 24
kLowestSubChunkIndex       == -4
kTerrainSubChunkIndex      == 0
kInlineSubChunkCount       == 5

Width == 16

appendEmptySubChunk(yIndex) == <<9, 0>> \o writeByte(yIndex)

Air     == 0
Bedrock == 1
Dirt    == 2
Grass   == 3

Layer(y) == CASE y = 0 -> Bedrock [] y \in {1, 2} -> Dirt [] y = 3 -> Grass [] OTHER -> Air

\* The palette index at a position, 0 first.
TerrainAt(position) == Layer(position % Width)

\* Two bits each, the first one lowest: four in a byte, sixteen in a word.
PackedIndices ==
  [n \in 1..((Width * Width * Width) \div 4) |->
     LET at(j) == TerrainAt(4 * (n - 1) + j) IN at(0) + 4 * at(1) + 16 * at(2) + 64 * at(3)]

\* palette: the hashes of the four blocks, in the order of their indices.
appendTerrainSubChunk(yIndex, palette) ==
  <<9, 1>> \o writeByte(yIndex) \o <<2 * 2 + 1>> \o PackedIndices \o writeZigZag32(Len(palette))
    \o FlattenSeq([i \in DOMAIN palette |-> writeHash(palette[i])])

SubChunk(index, palette) ==
  IF index = kTerrainSubChunkIndex THEN appendTerrainSubChunk(index, palette)
  ELSE appendEmptySubChunk(index)

\* One biome everywhere; the other sections are as the one before them.
appendBiomeColumn ==
  <<1>> \o writeZigZag32(1) \o [i \in 1..(kOverworldSubChunkSections - 1) |-> 255]

\* What sendLevelChunk() generates and stores, and takes for its own when it loads it.
GeneratedPayload(palette) ==
  FlattenSeq([i \in 1..kInlineSubChunkCount |-> SubChunk(kLowestSubChunkIndex + i - 1, palette)])
    \o appendBiomeColumn \o writeVarInt(0)

isCurrentPayload(p) ==
  Len(p) >= 3 /\ <<p[1], p[2]>> = <<9, 0>> /\ <<p[3]>> = writeByte(kLowestSubChunkIndex)

LevelChunkPacket(at, payload) ==
  writeVarInt(58) \o writeZigZag32(at[1]) \o writeZigZag32(at[2]) \o writeZigZag32(0)
    \o writeVarInt(kInlineSubChunkCount) \o writeBool(FALSE) \o writeBool(FALSE) \o writeVarInt(0)
    \o writeVarInt(Len(payload)) \o payload

-----------------------------------------------------------------------------
(* Sub-chunks on request *)

\* A request, or none if it ends early: every offset of the count has three bytes.
NoRequest == [offsets |-> <<>>, whole |-> FALSE]

SubChunkRequest(data, offset) ==
  LET dimension == readZigZag32(data, offset)
      base      == dimension.offset
      count     == readVarInt(data, base + 12)
      delta(i, k) == readByte(data, count.offset + 3 * (i - 1) + k).value
  IN  IF dimension = OutOfRange THEN NoRequest
      ELSE IF ~need(data, base, 12) \/ count = OutOfRange THEN NoRequest
      ELSE IF 3 * count.value > Len(data) - count.offset THEN NoRequest
      ELSE [whole   |-> TRUE, dimension |-> dimension.value,
            base    |-> <<readInt(data, base).value, readInt(data, base + 4).value,
                          readInt(data, base + 8).value>>,
            offsets |-> [i \in 1..count.value |-> <<delta(i, 0), delta(i, 1), delta(i, 2)>>]]

\* An entry of an answer.  The index above the base picks the sub-chunk, its lowest
\* eight bits are written into it.
SubChunkEntry(base, delta, palette) ==
  LET payload == SubChunk(base[2] + delta[2], palette)
  IN  writeByte(delta[1]) \o writeByte(delta[2]) \o writeByte(delta[3]) \o <<1>> \o writeBool(TRUE)
        \o writeVarInt(Len(payload)) \o payload
        \o <<0>> \o writeBool(FALSE) \o <<0>> \o writeBool(FALSE) \o writeBool(FALSE)

sendSubChunkResponse(request, palette) ==
  writeVarInt(174) \o writeBool(FALSE) \o writeZigZag32(request.dimension)
    \o writeInt(request.base[1]) \o writeInt(request.base[2]) \o writeInt(request.base[3])
    \o writeVarInt(Len(request.offsets))
    \o FlattenSeq([i \in DOMAIN request.offsets |->
         SubChunkEntry(request.base, request.offsets[i], palette)])
=============================================================================
