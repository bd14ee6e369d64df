---------------------------- MODULE WorldFormats ----------------------------
(***************************************************************************)
(* The byte formats the server reads from a world: NBT (NbtClassic.cpp),   *)
(* the keys and the sub-chunks of a real Bedrock world (RealChunkKeys.cpp, *)
(* RealSubChunk.cpp); and base64, which the login's tokens come in         *)
(* (Base64Url.cpp).                                                        *)
(*                                                                         *)
(* As in Codecs, an offset counts the bytes before it.  Names are short    *)
(* byte sequences.  A reader that gives up answers Bad.                    *)
(***************************************************************************)
EXTENDS Codecs

CONSTANT Blocks   \* block positions of a sub-chunk, 4096

ASSUME BlocksAssumption == Blocks \in Nat \ {0}

Bad == -1

-----------------------------------------------------------------------------
(* NBT *)

End       == 0
NbtByte   == 1
NbtInt    == 3
NbtLong   == 4
NbtString == 8
List      == 9
Compound  == 10

\* Bytes of a number, and of an array's element.
NumberWidth  == [tag \in 1..6 |-> <<1, 2, 4, 8, 4, 8>>[tag]]
ElementWidth == [tag \in {7, 11, 12} |-> IF tag = 7 THEN 1 ELSE IF tag = 11 THEN 4 ELSE 8]

Past(data, offset, n) == IF offset + n > Len(data) THEN Bad ELSE offset + n

\* readString(): the bytes, and the offset behind them.
NbtStringAt(data, offset) ==
  LET length == readUShort(data, offset)
      next   == IF length = OutOfRange THEN Bad ELSE Past(data, length.offset, length.value)
  IN  [value  |-> IF next = Bad THEN <<>> ELSE SubSeq(data, length.offset + 1, next),
       offset |-> next]

RECURSIVE skipPayload(_, _, _), skipCompoundBody(_, _), SkipElements(_, _, _, _)

SkipElements(data, offset, tag, count) ==
  IF offset = Bad \/ count = 0 THEN offset
  ELSE SkipElements(data, skipPayload(data, offset, tag), tag, count - 1)

skipCompoundBody(data, offset) ==
  IF offset = Bad \/ offset >= Len(data) THEN Bad
  ELSE IF data[offset + 1] = End THEN offset + 1
  ELSE LET name == NbtStringAt(data, offset + 1)
       IN  IF name.offset = Bad THEN Bad
           ELSE skipCompoundBody(data, skipPayload(data, name.offset, data[offset + 1]))

\* Nothing is skipped over an element type that has no payload (End).
skipPayload(data, offset, tag) ==
  LET count(at) == readUInt(data, at)
  IN  CASE tag \in DOMAIN NumberWidth -> Past(data, offset, NumberWidth[tag])
        [] tag \in DOMAIN ElementWidth ->
             IF count(offset) = OutOfRange THEN Bad
             ELSE Past(data, offset + 4, count(offset).value * ElementWidth[tag])
        [] tag = NbtString -> NbtStringAt(data, offset).offset
        [] tag = List ->
             IF offset + 1 > Len(data) \/ count(offset + 1) = OutOfRange THEN Bad
             ELSE SkipElements(data, offset + 5, data[offset + 1], count(offset + 1).value)
        [] tag = Compound -> skipCompoundBody(data, offset)
        [] OTHER -> Bad

Unread == [offset |-> Bad, ints |-> <<>>, strings |-> <<>>]

\* f with name given value: a name that comes again has its last value.
With(f, name, value) == [n \in DOMAIN f \cup {name} |-> IF n = name THEN value ELSE f[n]]

RECURSIVE ReadEntries(_, _, _, _)
ReadEntries(data, offset, ints, strings) ==
  IF offset = Bad \/ offset >= Len(data) THEN Unread
  ELSE LET tag  == data[offset + 1]
           name == NbtStringAt(data, offset + 1)
       IN  IF tag = End THEN [offset |-> offset + 1, ints |-> ints, strings |-> strings]
           ELSE IF name.offset = Bad THEN Unread
           ELSE IF tag = NbtInt
           THEN LET v == readUInt(data, name.offset)
                IN  IF v = OutOfRange THEN Unread
                    ELSE ReadEntries(data, v.offset, With(ints, name.value, v.value), strings)
           ELSE IF tag = NbtString
           THEN LET v == NbtStringAt(data, name.offset)
                IN  ReadEntries(data, v.offset, ints, With(strings, name.value, v.value))
           ELSE ReadEntries(data, skipPayload(data, name.offset, tag), ints, strings)

\* The view: the ints and strings directly in the compound; the rest is skipped.
readNbtCompoundClassic(data, offset) ==
  IF offset >= Len(data) \/ data[offset + 1] # Compound THEN Unread
  ELSE ReadEntries(data, NbtStringAt(data, offset + 1).offset, <<>>, <<>>)

writeNameClassic(name)           == writeUShort(Len(name)) \o name
writeNbtCompoundStartClassic     == <<Compound, 0, 0>>
writeNbtCompoundEndClassic       == <<End>>
writeNbtIntClassic(name, v)      == <<NbtInt>> \o writeNameClassic(name) \o writeUInt(v)
\* Of a long, the low four bytes: the server writes no other.
writeNbtLongClassic(name, v)     == <<NbtLong>> \o writeNameClassic(name) \o writeUInt(v) \o <<0, 0, 0, 0>>
writeNbtByteClassic(name, v)     == <<NbtByte>> \o writeNameClassic(name) \o <<v>>
writeNbtStringClassic(name, v)   == <<NbtString>> \o writeNameClassic(name) \o writeNameClassic(v)

-----------------------------------------------------------------------------
(* Keys of a real world: x, z, a dimension outside of the overworld, a tag, *)
(* and the index of a sub-chunk.                                           *)

NoKey == "not a chunk key"

parseChunkKey(key) ==
  IF Len(key) \notin {9, 10, 13, 14} THEN NoKey
  ELSE LET tagOffset == IF Len(key) \in {13, 14} THEN 12 ELSE 8
       IN  [x |-> readUInt(key, 0).value, z |-> readUInt(key, 4).value,
            dimension |-> IF tagOffset = 12 THEN readUInt(key, 8).value ELSE 0,
            tag |-> key[tagOffset + 1],
            subChunkIndex |-> IF Len(key) \in {10, 14} THEN key[tagOffset + 2] ELSE Bad]

-----------------------------------------------------------------------------
(* Sub-chunks: palette indices packed into 32-bit words, lowest bits first, *)
(* none across two words; then the palette.                                *)

BlocksPerWord(bits) == 32 \div bits
WordCount(bits)     == (Blocks + BlocksPerWord(bits) - 1) \div BlocksPerWord(bits)

Bit(data, k) == (data[(k \div 8) + 1] \div 2 ^ (k % 8)) % 2

RECURSIVE Bits(_, _, _)
Bits(data, k, n) == IF n = 0 THEN 0 ELSE Bit(data, k) + 2 * Bits(data, k + 1, n - 1)

\* The index at a position; the words start after `start` bytes.  (Of 32 bits the
\* code's mask is an undefined shift; worlds have 16 at most.)
IndexAt(data, start, bits, position) ==
  Bits(data, 8 * start + 32 * (position \div BlocksPerWord(bits))
               + bits * (position % BlocksPerWord(bits)), bits)

BlockName(view) == IF <<110>> \in DOMAIN view.strings THEN view.strings[<<110>>] ELSE <<63>>

RECURSIVE ReadPalette(_, _, _, _)
ReadPalette(data, offset, count, names) ==
  IF count = 0 THEN [offset |-> offset, names |-> names]
  ELSE LET entry == readNbtCompoundClassic(data, offset)
       IN  IF entry = Unread THEN [offset |-> Bad, names |-> <<>>]
           ELSE ReadPalette(data, entry.offset, count - 1, Append(names, BlockName(entry)))

NoStorage == [offset |-> Bad, names |-> <<>>]

\* A storage of no bits is of its one palette entry.  Entries 2, 3... of such a
\* palette are not read.
decodeOneBlockStorage(data, offset) ==
  LET header  == IF offset = Bad \/ offset >= Len(data) THEN 1 ELSE data[offset + 1]
      bits    == header \div 2
      start   == offset + 1
      behind  == IF bits = 0 THEN start ELSE Past(data, start, 4 * WordCount(bits))
      count   == IF behind = Bad THEN OutOfRange ELSE readUInt(data, behind)
      palette == ReadPalette(data, count.offset, IF bits = 0 THEN 1 ELSE count.value, <<>>)
      unknown == <<63>>
  IN  IF header % 2 = 1 \/ bits > 32 \/ count = OutOfRange THEN NoStorage
      ELSE IF (bits = 0 /\ count.value < 1) \/ palette.offset = Bad THEN NoStorage
      ELSE [offset |-> palette.offset,
            names  |-> [p \in 1..Blocks |->
              LET i == IF bits = 0 THEN 0 ELSE IndexAt(data, start, bits, p - 1)
              IN  IF i < Len(palette.names) THEN palette.names[i + 1] ELSE unknown]]

\* The names of the first layer; what follows it may be malformed.
decodeSubChunkPrefix(raw) ==
  IF Len(raw) < 2 THEN NoStorage.names
  ELSE IF raw[1] \notin {8, 9} \/ raw[2] < 1 \/ (raw[1] = 9 /\ Len(raw) < 3) THEN NoStorage.names
  ELSE decodeOneBlockStorage(raw, IF raw[1] = 9 THEN 3 ELSE 2).names

-----------------------------------------------------------------------------
(* Base64: a character is its value, 0 to 63; Pad is "=". *)

Pad == -1

Sextets(a, b, c) == <<a \div 4, (a % 4) * 16 + (b \div 16), (b % 16) * 4 + (c \div 64), c % 64>>

RECURSIVE encodeCore(_, _)
encodeCore(data, padded) ==
  CASE Len(data) = 0 -> <<>>
    [] Len(data) = 1 -> SubSeq(Sextets(data[1], 0, 0), 1, 2) \o (IF padded THEN <<Pad, Pad>> ELSE <<>>)
    [] Len(data) = 2 -> SubSeq(Sextets(data[1], data[2], 0), 1, 3) \o (IF padded THEN <<Pad>> ELSE <<>>)
    [] OTHER -> Sextets(data[1], data[2], data[3]) \o encodeCore(SubSeq(data, 4, Len(data)), padded)

\* base64UrlDecode(), base64Decode(): the bits collected and not yet given out
\* are the low ones of `buffer`; the rest of it has no effect.
RECURSIVE Collect(_, _, _)
Collect(input, buffer, bitsCollected) ==
  IF input = <<>> THEN <<>>
  ELSE IF Head(input) = Pad THEN Collect(Tail(input), buffer, bitsCollected)
  ELSE LET b == buffer * 64 + Head(input)
           n == bitsCollected + 6
       IN  IF n < 8 THEN Collect(Tail(input), b, n)
           ELSE <<b \div 2 ^ (n - 8)>> \o Collect(Tail(input), b % 2 ^ (n - 8), n - 8)

base64Decode(input) == Collect(input, 0, 0)
=============================================================================
