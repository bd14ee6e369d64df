------------------------------ MODULE Codecs64 ------------------------------
(***************************************************************************)
(* The 64-bit data types of game packets (LBBNet/Packets/                  *)
(* DataTypeHelper.cpp): identifiers, times, floating-point numbers.        *)
(*                                                                         *)
(* A word is its 64 bits, the lowest first: a signed, an unsigned and a    *)
(* floating-point value with the same bits are the same word.              *)
(***************************************************************************)
EXTENDS Codecs

Bit    == {0, 1}
Word64 == [0..63 -> Bit]

\* The bit k of a word, of which there are no more than 64.
BitAt(w, k) == IF k <= 63 THEN w[k] ELSE 0

\* Seven bits and eight bits of a word as a number, and back.
Septet(w, k) ==
  BitAt(w, k) + 2 * BitAt(w, k + 1) + 4 * BitAt(w, k + 2) + 8 * BitAt(w, k + 3)
    + 16 * BitAt(w, k + 4) + 32 * BitAt(w, k + 5) + 64 * BitAt(w, k + 6)
Octet(w, k) == Septet(w, k) + 128 * BitAt(w, k + 7)

Weight == <<1, 2, 4, 8, 16, 32, 64, 128>>
BitOf(byte, j) == (byte \div Weight[j + 1]) % 2

writeUInt64(w) == [i \in 1..8 |-> Octet(w, 8 * (i - 1))]

readUInt64(buf, offset) ==
  IF need(buf, offset, 8)
  THEN [value  |-> [k \in 0..63 |-> BitOf(buf[offset + 1 + k \div 8], k % 8)],
        offset |-> offset + 8]
  ELSE OutOfRange

\* The other types have the same bits: only what C++ takes them for differs.  A
\* float is the number its 32 bits make.
writeInt64(w)  == writeUInt64(w)
writeDouble(w) == writeUInt64(w)
writeFloat(raw) == writeUInt(raw)
readInt64(buf, offset)  == readUInt64(buf, offset)
readDouble(buf, offset) == readUInt64(buf, offset)
readFloat(buf, offset)  == readUInt(buf, offset)

\* The groups up to the last one that is not zero, and at least one.
VarInt64Length(w) ==
  CHOOSE n \in 1..10 : /\ \A g \in n..9 : Septet(w, 7 * g) = 0
                       /\ n = 1 \/ Septet(w, 7 * (n - 1)) # 0

writeVarInt64(w) ==
  [i \in 1..VarInt64Length(w) |->
     (IF i < VarInt64Length(w) THEN 128 ELSE 0) + Septet(w, 7 * (i - 1))]

\* Of a tenth group one bit is left.
readVarInt64(buf, offset) ==
  IF \E n \in 1..10 : EndsAfter(buf, offset, n)
  THEN LET n == CHOOSE k \in 1..10 : EndsAfter(buf, offset, k)
       IN  [value  |-> [k \in 0..63 |->
                          IF k \div 7 < n THEN BitOf(buf[offset + 1 + k \div 7], k % 7) ELSE 0],
            offset |-> offset + n]
  ELSE OutOfRange

Differ(a, b) == IF a = b THEN 0 ELSE 1

\* (v << 1) ^ (v >> 63), and (u >> 1) ^ -(u & 1).
ToZigZag64(w)   == [k \in 0..63 |-> Differ(IF k = 0 THEN 0 ELSE w[k - 1], w[63])]
FromZigZag64(u) == [k \in 0..63 |-> Differ(IF k = 63 THEN 0 ELSE u[k + 1], u[0])]

writeZigZag64(w) == writeVarInt64(ToZigZag64(w))

readZigZag64(buf, offset) ==
  LET raw == readVarInt64(buf, offset)
  IN  IF raw.offset = -1 THEN OutOfRange
      ELSE [value |-> FromZigZag64(raw.value), offset |-> raw.offset]

-----------------------------------------------------------------------------
(* Against the 32-bit forms and against themselves. *)

\* The word of a number that TLC has.
WordOf(v) == [k \in 0..63 |-> IF k > 30 THEN (IF v < 0 THEN 1 ELSE 0) ELSE (v \div (2 ^ k)) % 2]

Small64 == UNION {{2 ^ k - 1, 2 ^ k, -(2 ^ k), -(2 ^ k) - 1} : k \in 0..29}

\* One bit, all bits up to one, all bits from one, and every seventh.
Words ==
  UNION {{[k \in 0..63 |-> IF k = n THEN 1 ELSE 0], [k \in 0..63 |-> IF k <= n THEN 1 ELSE 0],
          [k \in 0..63 |-> IF k >= n THEN 1 ELSE 0],
          [k \in 0..63 |-> IF k % 7 = n % 7 THEN 1 ELSE 0]} : n \in 0..63}
    \cup {[k \in 0..63 |-> 0]}

\* Every word comes back from each of its forms, between other bytes, and no
\* part of one is taken for a whole.
ASSUME WordsReadBack ==
  \A w \in Words :
    LET varint == writeVarInt64(w)
        zigzag == writeZigZag64(w)
    IN  /\ readUInt64(<<9>> \o writeUInt64(w) \o <<1>>, 1) = [value |-> w, offset |-> 9]
        /\ readVarInt64(<<200>> \o varint \o <<7>>, 1) = [value |-> w, offset |-> 1 + Len(varint)]
        /\ readZigZag64(<<200>> \o zigzag \o <<7>>, 1) = [value |-> w, offset |-> 1 + Len(zigzag)]
        /\ \A n \in 0..(Len(varint) - 1) : readVarInt64(SubSeq(varint, 1, n), 0).offset = -1
        /\ \A n \in 0..7 : readUInt64(SubSeq(writeUInt64(w), 1, n), 0).offset = -1

\* A value of 32 bits has the same bytes in both widths, so that the two ends may
\* disagree about the width of an identifier that is small.
ASSUME SameAsNarrow ==
  \A v \in Small64 :
    /\ v >= 0 => writeVarInt64(WordOf(v)) = writeVarInt(v)
    /\ writeZigZag64(WordOf(v)) = writeZigZag32(v)

\* An eleventh group is refused; what a tenth one has above its lowest bit is lost.
ASSUME LongVarInts64 ==
  LET nine == [i \in 1..9 |-> 128]
  IN  /\ readVarInt64(nine \o <<128, 0>>, 0).offset = -1
      /\ readVarInt64(nine \o <<126>>, 0) = [value |-> WordOf(0), offset |-> 10]
      /\ readVarInt64(nine \o <<127>>, 0).value = [WordOf(0) EXCEPT ![63] = 1]
=============================================================================
