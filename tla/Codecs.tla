------------------------------- MODULE Codecs -------------------------------
(***************************************************************************)
(* The data types of game packets (LBBNet/Packets/DataTypeHelper.cpp):     *)
(* fixed-width integers, varints of a 32-bit value, zigzag, strings.       *)
(*                                                                         *)
(* A buffer is a sequence of bytes; an offset counts the bytes before it,  *)
(* as the code's does.  A read answers the value and the new offset, or    *)
(* OutOfRange, the exception that ends the packet's handler.  The 64-bit   *)
(* forms are in Codecs64.                                                  *)
(***************************************************************************)
EXTENDS Integers, Sequences

Byte == 0..255

OutOfRange == [value |-> -1, offset |-> -1]

\* need(): n bytes at offset are inside of the buffer.
need(buf, offset, n) == offset <= Len(buf) /\ n <= Len(buf) - offset

-----------------------------------------------------------------------------
(* Fixed width *)

Shift8(v) == v \div 256

writeUShort(v)   == <<v % 256, Shift8(v) % 256>>
writeUInt24LE(v) == <<v % 256, Shift8(v) % 256, Shift8(Shift8(v)) % 256>>
writeUInt(v)     == <<v % 256, Shift8(v) % 256, Shift8(Shift8(v)) % 256,
                      Shift8(Shift8(Shift8(v))) % 256>>
writeIntBE(v)    == <<Shift8(Shift8(Shift8(v))) % 256, Shift8(Shift8(v)) % 256,
                      Shift8(v) % 256, v % 256>>

\* Signed values are written as the unsigned ones with the same bits; the shift
\* keeps the sign.
writeByte(v)  == <<v % 256>>
writeBool(b)  == <<IF b THEN 1 ELSE 0>>
writeShort(v) == writeUShort(v)
writeInt(v)   == writeUInt(v)

\* The signed value of an unsigned one of half the range above the middle.
SignedOf(v, half) == IF v < half THEN v ELSE v - 2 * half

readUByte(buf, offset) ==
  IF need(buf, offset, 1) THEN [value |-> buf[offset + 1], offset |-> offset + 1] ELSE OutOfRange

readByte(buf, offset) ==
  IF need(buf, offset, 1)
  THEN [value |-> SignedOf(buf[offset + 1], 128), offset |-> offset + 1] ELSE OutOfRange

\* A value that is none of the two is true.
readBool(buf, offset) ==
  IF need(buf, offset, 1)
  THEN [value |-> IF buf[offset + 1] = 0 THEN 0 ELSE 1, offset |-> offset + 1] ELSE OutOfRange

readUShort(buf, offset) ==
  IF need(buf, offset, 2)
  THEN [value |-> buf[offset + 1] + 256 * buf[offset + 2], offset |-> offset + 2]
  ELSE OutOfRange

readShort(buf, offset) ==
  LET raw == readUShort(buf, offset)
  IN  IF raw = OutOfRange THEN OutOfRange
      ELSE [value |-> SignedOf(raw.value, 32768), offset |-> raw.offset]

readUInt24LE(buf, offset) ==
  IF need(buf, offset, 3)
  THEN [value  |-> buf[offset + 1] + 256 * buf[offset + 2] + 65536 * buf[offset + 3],
        offset |-> offset + 3]
  ELSE OutOfRange

readUInt(buf, offset) ==
  IF need(buf, offset, 4)
  THEN [value  |-> buf[offset + 1] + 256 * buf[offset + 2] + 65536 * buf[offset + 3]
                     + 16777216 * buf[offset + 4],
        offset |-> offset + 4]
  ELSE OutOfRange

readInt(buf, offset) ==
  IF need(buf, offset, 4)
  THEN [value  |-> buf[offset + 1] + 256 * buf[offset + 2] + 65536 * buf[offset + 3]
                     + 16777216 * SignedOf(buf[offset + 4], 128),
        offset |-> offset + 4]
  ELSE OutOfRange

readUIntBE(buf, offset) ==
  IF need(buf, offset, 4)
  THEN [value  |-> 16777216 * buf[offset + 1] + 65536 * buf[offset + 2]
                     + 256 * buf[offset + 3] + buf[offset + 4],
        offset |-> offset + 4]
  ELSE OutOfRange

-----------------------------------------------------------------------------
(* Varints: groups of seven bits, the lowest first, the top bit set on all *)
(* but the last.                                                           *)

\* What is left of v after each round of the loop.
Round1(v) == v \div 128
Round2(v) == Round1(v) \div 128
Round3(v) == Round2(v) \div 128
Round4(v) == Round3(v) \div 128

VarIntLength(v) ==
  IF v < 128 THEN 1 ELSE IF Round1(v) < 128 THEN 2 ELSE IF Round2(v) < 128 THEN 3
  ELSE IF Round3(v) < 128 THEN 4 ELSE 5

Group(v, i) ==
  (IF i = 1 THEN v ELSE IF i = 2 THEN Round1(v) ELSE IF i = 3 THEN Round2(v)
   ELSE IF i = 4 THEN Round3(v) ELSE Round4(v)) % 128

writeVarInt(v) ==
  [i \in 1..VarIntLength(v) |-> IF i < VarIntLength(v) THEN 128 + Group(v, i) ELSE Group(v, i)]

\* The bytes after offset up to the n-th are there, and only the n-th ends it.
EndsAfter(buf, offset, n) ==
  /\ need(buf, offset, n)
  /\ buf[offset + n] < 128
  /\ \A i \in 1..(n - 1) : buf[offset + i] >= 128

\* Its n groups, shifted together in 32 bits: of a fifth one four bits are left.
Shifted(buf, offset, n) ==
    (buf[offset + 1] % 128)
  + (IF n >= 2 THEN 128 * (buf[offset + 2] % 128) ELSE 0)
  + (IF n >= 3 THEN 16384 * (buf[offset + 3] % 128) ELSE 0)
  + (IF n >= 4 THEN 2097152 * (buf[offset + 4] % 128) ELSE 0)
  + (IF n >= 5 THEN 268435456 * (buf[offset + 5] % 16) ELSE 0)

\* Five groups at most; a sixth, or the end of the buffer, is out_of_range.
readVarInt(buf, offset) ==
  IF \E n \in 1..5 : EndsAfter(buf, offset, n)
  THEN LET n == CHOOSE k \in 1..5 : EndsAfter(buf, offset, k)
       IN  [value |-> Shifted(buf, offset, n), offset |-> offset + n]
  ELSE OutOfRange

ToZigZag(v)   == IF v >= 0 THEN 2 * v ELSE -2 * v - 1
FromZigZag(u) == IF u % 2 = 0 THEN u \div 2 ELSE -(u \div 2) - 1

writeZigZag32(v) == writeVarInt(ToZigZag(v))

readZigZag32(buf, offset) ==
  LET raw == readVarInt(buf, offset)
  IN  IF raw = OutOfRange THEN OutOfRange ELSE [raw EXCEPT !.value = FromZigZag(@)]

-----------------------------------------------------------------------------
(* Strings: a varint length, then the bytes. *)

writeString(s) == writeVarInt(Len(s)) \o s

readString(buf, offset) ==
  LET length == readVarInt(buf, offset)
  IN  IF length = OutOfRange \/ ~need(buf, length.offset, length.value) THEN OutOfRange
      ELSE [value  |-> SubSeq(buf, length.offset + 1, length.offset + length.value),
            offset |-> length.offset + length.value]
=============================================================================
