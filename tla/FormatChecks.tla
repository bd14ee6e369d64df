---------------------------- MODULE FormatChecks ----------------------------
(***************************************************************************)
(* The readers of Codecs and WorldFormats against the writers, or, where   *)
(* the server only reads, against an encoder written from the format.  TLC *)
(* evaluates these assumptions over bounded inputs when it starts on a     *)
(* module that extends this one.                                           *)
(***************************************************************************)
EXTENDS WorldFormats

Prefixes(s)  == {SubSeq(s, 1, n) : n \in 0..(Len(s) - 1)}
UpTo(S, n)   == UNION {[1..k -> S] : k \in 0..n}

-----------------------------------------------------------------------------
(* Data types *)

Numbers == UNION {{2 ^ k - 1, 2 ^ k, 2 ^ k + 1} : k \in 0..30} \cup {2147483647}
Signed  == UNION {{2 ^ k - 1, 2 ^ k, -(2 ^ k), -(2 ^ k) - 1} : k \in 0..29}

\* Written before and after other bytes, a number is read back, whole or not at
\* all, and the offset is behind it.
ASSUME NumbersReadBack ==
  \A v \in Numbers :
    LET bytes == writeVarInt(v)
    IN  /\ readVarInt(<<200>> \o bytes \o <<7>>, 1) = [value |-> v, offset |-> 1 + Len(bytes)]
        /\ \A cut \in Prefixes(bytes) : readVarInt(cut, 0) = OutOfRange
        /\ readUInt(writeUInt(v), 0) = [value |-> v, offset |-> 4]
        /\ readUIntBE(writeIntBE(v), 0) = [value |-> v, offset |-> 4]
        /\ v < 2 ^ 24 => readUInt24LE(writeUInt24LE(v), 0) = [value |-> v, offset |-> 3]
        /\ v < 2 ^ 16 => readUShort(writeUShort(v), 0) = [value |-> v, offset |-> 2]

ASSUME SignedReadBack ==
  /\ \A v \in Signed :
       /\ readZigZag32(writeZigZag32(v), 0).value = v
       /\ readInt(writeInt(v), 0) = [value |-> v, offset |-> 4]
  /\ \A v \in {v \in Signed : -(2 ^ 15) <= v /\ v < 2 ^ 15} : readShort(writeShort(v), 0).value = v
  /\ \A v \in -128..127 : readByte(writeByte(v), 0).value = v
  /\ \A b \in BOOLEAN : readBool(writeBool(b), 0).value = 1 <=> b

\* A sixth group is refused; of a fifth one four bits count.
ASSUME LongVarInts ==
  /\ readVarInt(<<128, 128, 128, 128, 128, 0>>, 0) = OutOfRange
  /\ readVarInt(<<129, 128, 128, 128, 16>>, 0) = [value |-> 1, offset |-> 5]

ASSUME StringsReadBack ==
  \A s \in UpTo({0, 128, 255}, 3) :
    /\ readString(<<1>> \o writeString(s) \o <<2>>, 1) = [value |-> s, offset |-> 2 + Len(s)]
    /\ \A cut \in Prefixes(writeString(s)) : readString(cut, 0) = OutOfRange

-----------------------------------------------------------------------------
(* NBT *)

SomeNames == {<<>>, <<110>>, <<120, 0>>}
SomeInts  == {0, 300}

\* Entries the server writes, and ones only a real world has: a list, a compound
\* in a list, arrays.
Entries ==
  {[bytes |-> writeNbtIntClassic(n, v), name |-> n, kind |-> "int", value |-> v] :
     n \in SomeNames, v \in SomeInts}
  \cup
  {[bytes |-> writeNbtStringClassic(n, v), name |-> n, kind |-> "string", value |-> v] :
     n \in SomeNames, v \in {<<>>, <<0, 3>>}}
  \cup
  {[bytes |-> b, name |-> <<>>, kind |-> "skipped", value |-> 0] : b \in
     {writeNbtLongClassic(<<3>>, 258),
      writeNbtByteClassic(<<8>>, 3),
      <<List>> \o writeNameClassic(<<>>) \o <<Compound>> \o writeUInt(2)
        \o writeNbtIntClassic(<<>>, 7) \o <<End>> \o <<End>>,
      <<List>> \o writeNameClassic(<<9>>) \o <<End>> \o writeUInt(0),
      <<Compound>> \o writeNameClassic(<<1>>) \o writeNbtStringClassic(<<2>>, <<3>>) \o <<End>>,
      <<7>> \o writeNameClassic(<<>>) \o writeUInt(3) \o <<0, 0, 0>>,
      <<11>> \o writeNameClassic(<<>>) \o writeUInt(1) \o <<0, 0, 0, 0>>,
      <<5>> \o writeNameClassic(<<>>) \o <<0, 0, 128, 63>>}}

Document(d) ==
  writeNbtCompoundStartClassic
    \o (IF Len(d) = 0 THEN <<>> ELSE d[1].bytes \o (IF Len(d) = 1 THEN <<>> ELSE d[2].bytes))
    \o writeNbtCompoundEndClassic

\* What the last entry of each name says.
View(d, kind) ==
  LET named == {i \in DOMAIN d : d[i].kind = kind}
      last(n) == CHOOSE i \in named : d[i].name = n /\ \A j \in named : d[j].name = n => j <= i
  IN  [n \in {d[i].name : i \in named} |-> d[last(n)].value]

\* A compound gives exactly its own ints and strings, whatever lies between them,
\* and nothing at all when it is cut short, wherever it is.  (WorldStorage builds
\* on this: an unfinished level.dat is not valid.)
ASSUME CompoundsReadBack ==
  \A d \in UpTo(Entries, 2) :
    LET bytes == Document(d)
        view  == readNbtCompoundClassic(bytes \o <<5>>, 0)
    IN  /\ view = [offset |-> Len(bytes), ints |-> View(d, "int"), strings |-> View(d, "string")]
        /\ Len(d) < 2 => \A cut \in Prefixes(bytes) : readNbtCompoundClassic(cut, 0) = Unread

-----------------------------------------------------------------------------
(* Worlds *)

Key(x, z, dimension, tag, index) ==
  writeUInt(x) \o writeUInt(z) \o (IF dimension = 0 THEN <<>> ELSE writeUInt(dimension))
    \o <<tag>> \o (IF index = Bad THEN <<>> ELSE <<index>>)

\* The length alone tells the four forms of a key apart.
ASSUME KeysReadBack ==
  \A x, z \in {0, 1, 300}, dimension \in 0..2, tag \in {43, 47, 119}, index \in {Bad, 0, 252} :
    parseChunkKey(Key(x, z, dimension, tag, index))
      = [x |-> x, z |-> z, dimension |-> dimension, tag |-> tag, subChunkIndex |-> index]

\* The format's encoder: byte k of the words is made of the bits there.
Packed(indices, bits) ==
  LET BitAt(k) ==
        LET word == k \div 32
            slot == (k % 32) \div bits
            p    == word * BlocksPerWord(bits) + slot
        IN  IF slot >= BlocksPerWord(bits) \/ p >= Blocks THEN 0
            ELSE (indices[p + 1] \div 2 ^ ((k % 32) % bits)) % 2
      ByteAt(k) == BitAt(8 * k) + 2 * BitAt(8 * k + 1) + 4 * BitAt(8 * k + 2)
                     + 8 * BitAt(8 * k + 3) + 16 * BitAt(8 * k + 4) + 32 * BitAt(8 * k + 5)
                     + 64 * BitAt(8 * k + 6) + 128 * BitAt(8 * k + 7)
  IN  [k \in 1..(4 * WordCount(bits)) |-> ByteAt(k - 1)]

BlockEntry(name) ==
  writeNbtCompoundStartClassic \o writeNbtStringClassic(<<110>>, name) \o writeNbtCompoundEndClassic

Storage(indices, bits) ==
  <<2 * bits>> \o Packed(indices, bits) \o writeUInt(2) \o BlockEntry(<<65>>) \o BlockEntry(<<66>>)

\* Every position has the name its index points at, whatever the width and
\* whether or not the words have bits to spare; an index without a palette entry
\* is an unknown block; a malformed second layer does no harm, a cut first one
\* gives nothing.
ASSUME SubChunksReadBack ==
  \A bits \in {1, 2, 3, 5, 8, 16} :
    \A indices \in {[p \in 1..Blocks |-> (p * k) % (IF bits = 1 THEN 2 ELSE 3)] : k \in 0..4} :
      LET raw == <<9, 2, 252>> \o Storage(indices, bits)
      IN  /\ decodeSubChunkPrefix(raw \o <<4, 1>>)
               = [p \in 1..Blocks |-> CASE indices[p] = 0 -> <<65>>
                                        [] indices[p] = 1 -> <<66>>
                                        [] OTHER -> <<63>>]
          /\ \A cut \in Prefixes(raw) : decodeSubChunkPrefix(cut) = <<>>

ASSUME UniformSubChunk ==
  decodeSubChunkPrefix(<<8, 1, 0>> \o writeUInt(1) \o BlockEntry(<<65>>)) = [p \in 1..Blocks |-> <<65>>]

-----------------------------------------------------------------------------
(* Base64 *)

ASSUME Base64ReadBack ==
  \A data \in UpTo({0, 1, 128, 255}, 5), padded \in BOOLEAN :
    base64Decode(encodeCore(data, padded)) = data
=============================================================================
