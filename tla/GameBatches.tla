----------------------------- MODULE GameBatches -----------------------------
(***************************************************************************)
(* A batch of game packets on its way through framing, compression and     *)
(* encryption, and back: flushGamePackets() and handleBedrockPacket() with *)
(* Compression.cpp and Encryption.cpp.  GameSession takes a batch for      *)
(* readable when the receiver undoes what the sender did; here is what     *)
(* each side does, byte for byte.                                          *)
(*                                                                         *)
(* A byte is a record: [b |-> n], a known one, or what a library makes     *)
(* that means nothing without it: a part of a deflate stream, of a hash, a *)
(* byte under a cipher stream.                                             *)
(***************************************************************************)
EXTENDS Codecs, SequencesExt

Known(numbers) == [i \in DOMAIN numbers |-> [b |-> numbers[i]]]
AllKnown(bytes) == \A i \in DOMAIN bytes : DOMAIN bytes[i] = {"b"}
Numbers(bytes) == [i \in DOMAIN bytes |-> bytes[i].b]

-----------------------------------------------------------------------------
(* Compression.  zlib (external) turns data into a stream and back; two     *)
(* bytes stand for the stream, so that one can be cut.                     *)

Failed == [ok |-> FALSE, data |-> <<>>]
Done(data) == [ok |-> TRUE, data |-> data]

Deflated(data) == <<[deflate |-> data], [end |-> data]>>

zlibCompress(input) == IF input = <<>> THEN <<>> ELSE Deflated(input)

\* Bytes behind the end of the stream are not looked at.
zlibDecompress(input, maxOutputSize) ==
  IF input = <<>> THEN Done(<<>>)
  ELSE IF /\ DOMAIN input[1] = {"deflate"}
          /\ IsPrefix(Deflated(input[1].deflate), input)
          /\ Len(input[1].deflate) <= maxOutputSize
       THEN Done(input[1].deflate)
       ELSE Failed

-----------------------------------------------------------------------------
(* Encryption.  A cipher context is a key and a place in its stream: every  *)
(* byte that goes through moves it, whatever becomes of the byte.          *)

Update(ctx, bytes) == [ctx EXCEPT !.at = @ + Len(bytes)]

EncryptUpdate(ctx, bytes) ==
  [i \in DOMAIN bytes |-> [key |-> ctx.key, at |-> ctx.at + i, of |-> bytes[i]]]

DecryptUpdate(ctx, bytes) ==
  [i \in DOMAIN bytes |->
     IF DOMAIN bytes[i] = {"key", "at", "of"} /\ bytes[i].key = ctx.key /\ bytes[i].at = ctx.at + i
     THEN bytes[i].of
     ELSE [noise |-> bytes[i]]]

kTrailer == 8

computeTrailer(key, counter, plaintext) ==
  [i \in 1..kTrailer |-> [hash |-> plaintext, counter |-> counter, key |-> key, byte |-> i]]

\* The point the two ends agree on (external) comes without its leading zeros.
kP384FieldBytes == 48

Agreed(point) ==
  LET zeros == {n \in 0..Len(point) : \A i \in 1..n : point[i] = 0}
      most  == CHOOSE n \in zeros : \A k \in zeros : k <= n
  IN  SubSeq(point, most + 1, Len(point))

Padded(bytes, width) == [i \in 1..(width - Len(bytes)) |-> 0] \o bytes

deriveSharedSecret(point) ==
  LET secret == Agreed(point)
  IN  IF secret = <<>> THEN <<>> ELSE Padded(secret, kP384FieldBytes)

\* SHA-256 (external): what it is of is all that is known of it.
computeEncryptionKey(salt, sharedSecret) == salt \o sharedSecret

\* The raw form of a signature, from the two numbers the library has, and back.
signES384(r, s) == Padded(r, kP384FieldBytes) \o Padded(s, kP384FieldBytes)

signatureParts(raw) ==
  IF Len(raw) # 2 * kP384FieldBytes THEN Failed
  ELSE Done(<<SubSeq(raw, 1, kP384FieldBytes), SubSeq(raw, kP384FieldBytes + 1, Len(raw))>>)

\* What a ClientState has for its batches.
Plain ==
  [compressionEnabled |-> FALSE, encryptionEnabled |-> FALSE, encryptionKey |-> <<>>,
   sendCipherCtx |-> [key |-> <<>>, at |-> 0], recvCipherCtx |-> [key |-> <<>>, at |-> 0],
   sendPacketCounter |-> 0, recvPacketCounter |-> 0]

initClientEncryption(state, encryptionKey) ==
  [state EXCEPT !.encryptionKey = encryptionKey,
                !.sendCipherCtx = [key |-> encryptionKey, at |-> 0],
                !.recvCipherCtx = [key |-> encryptionKey, at |-> 0],
                !.sendPacketCounter = 0,
                !.recvPacketCounter = 0,
                !.encryptionEnabled = TRUE]

encryptGamePacket(state, batch) ==
  LET whole == batch \o computeTrailer(state.encryptionKey, state.sendPacketCounter, batch)
  IN  [state |-> [state EXCEPT !.sendPacketCounter = @ + 1, !.sendCipherCtx = Update(@, whole)],
       data  |-> EncryptUpdate(state.sendCipherCtx, whole)]

\* A batch too short for a trailer moves the stream and not the counter.
decryptGamePacket(state, data) ==
  LET out   == DecryptUpdate(state.recvCipherCtx, data)
      moved == [state EXCEPT !.recvCipherCtx = Update(@, data)]
      split == Len(out) - kTrailer
      plaintext == SubSeq(out, 1, split)
  IN  IF split < 0 THEN Failed @@ [state |-> moved]
      ELSE (IF SubSeq(out, split + 1, Len(out))
                 = computeTrailer(state.encryptionKey, state.recvPacketCounter, plaintext)
            THEN Done(plaintext) ELSE Failed)
           @@ [state |-> [moved EXCEPT !.recvPacketCounter = @ + 1]]

-----------------------------------------------------------------------------
(* Framing *)

\* What queueGamePacket makes of the packets queued since the last flush.
pendingBatch(packets) == FlattenSeq([i \in DOMAIN packets |-> writeString(packets[i])])

\* deflates: zlib can do it; when it cannot, the batch goes out as it is.
Prefixed(batch, deflates) ==
  IF deflates THEN Known(<<0>>) \o zlibCompress(batch) ELSE Known(<<255>>) \o batch

flushGamePackets(state, packets, deflates) ==
  IF packets = <<>> THEN [state |-> state, data |-> <<>>] ELSE
  LET batch == IF state.compressionEnabled
               THEN Prefixed(Known(pendingBatch(packets)), deflates)
               ELSE Known(pendingBatch(packets))
      sent  == IF state.encryptionEnabled THEN encryptGamePacket(state, batch)
               ELSE [state |-> state, data |-> batch]
  IN  [sent EXCEPT !.data = Known(<<254>>) \o @]

\* The packets, and what ended them: the batch, a length beyond it, or a length
\* that cannot be read (which is thrown past the loop).
unpack(payload) ==
  LET from[offset \in 0..Len(payload)] ==
        IF offset = Len(payload) THEN [packets |-> <<>>, ended |-> "whole"]
        ELSE LET length == readVarInt(payload, offset)
             IN  IF length = OutOfRange THEN [packets |-> <<>>, ended |-> "thrown"]
                 ELSE IF length.value > Len(payload) - length.offset
                      THEN [packets |-> <<>>, ended |-> "truncated"]
                 ELSE LET rest == from[length.offset + length.value]
                      IN  [rest EXCEPT !.packets =
                             <<SubSeq(payload, length.offset + 1, length.offset + length.value)>> \o @]
  IN  from[0]

Dropped == [packets |-> <<>>, ended |-> "dropped"]

kMaxOutputSize == 8 * 1024 * 1024

\* What is left when the algorithm byte and the compression are off.
Decompressed(state, body) ==
  IF ~state.compressionEnabled THEN Done(body)
  ELSE IF body = <<>> THEN Failed
  ELSE IF body[1] = [b |-> 255] THEN Done(Tail(body))
  ELSE zlibDecompress(Tail(body), kMaxOutputSize)

\* Bytes nobody wrote are packets nobody wrote: "garbage".
handleBedrockPacket(state, data) ==
  IF Len(data) < 2 \/ data[1] # [b |-> 254] THEN [state |-> state, got |-> Dropped]
  ELSE LET opened  == IF state.encryptionEnabled THEN decryptGamePacket(state, Tail(data))
                      ELSE Done(Tail(data)) @@ [state |-> state]
           payload == IF opened.ok THEN Decompressed(state, opened.data) ELSE Failed
       IN  [state |-> opened.state,
            got   |-> IF ~payload.ok THEN Dropped
                      ELSE IF ~AllKnown(payload.data) THEN [packets |-> <<>>, ended |-> "garbage"]
                      ELSE unpack(Numbers(payload.data))]

-----------------------------------------------------------------------------
(* The two ends against each other, over streams of batches. *)

Ends(compression, encryption) ==
  LET c == [Plain EXCEPT !.compressionEnabled = compression]
  IN  IF encryption THEN initClientEncryption(c, computeEncryptionKey(<<1, 2>>, <<0, 7>>)) ELSE c

\* Batches of none, one and several packets, an empty and a long one among them.
SomeBatches == {<<<<>>>>, <<<<4>>>>, <<<<1, 4>>, <<>>, <<193, 1>>>>, <<[i \in 1..128 |-> 9], <<3>>>>}
Streams     == [1..3 -> SomeBatches]

\* What a sender in one state makes of a stream, batch by batch.
SentOf(start, stream, deflates) ==
  LET after[n \in 0..Len(stream)] ==
        IF n = 0 THEN [state |-> start, data |-> <<>>]
        ELSE flushGamePackets(after[n - 1].state, stream[n], deflates)
  IN  [n \in DOMAIN stream |-> after[n].data]

GotOf(start, datagrams) ==
  LET after[n \in 0..Len(datagrams)] ==
        IF n = 0 THEN [state |-> start, got |-> Dropped]
        ELSE handleBedrockPacket(after[n - 1].state, datagrams[n])
  IN  [n \in DOMAIN datagrams |-> after[n].got]

Whole(packets) == [packets |-> packets, ended |-> "whole"]

\* In order and each of them once, every batch is read as it was queued, however
\* the two ends compress and encrypt, and whether or not zlib could do its part.
ASSUME StreamsReadBack ==
  \A compression, encryption, deflates \in BOOLEAN, stream \in Streams :
    LET end == Ends(compression, encryption)
        got == GotOf(end, SentOf(end, stream, deflates))
    IN  \A n \in 1..3 : got[n] = Whole(stream[n])

\* Once encrypted, a batch that is lost or comes twice is the end of the conversation:
\* all that follow are dropped, and nothing starts it over.  Two that change places
\* are dropped themselves; behind them place and count are right again.
ASSUME NothingAfterAGap ==
  \A compression \in BOOLEAN, stream \in Streams :
    LET end  == Ends(compression, TRUE)
        sent == SentOf(end, stream, TRUE)
    IN  /\ GotOf(end, <<sent[2], sent[3]>>) = <<Dropped, Dropped>>
        /\ GotOf(end, <<sent[1], sent[3]>>) = <<Whole(stream[1]), Dropped>>
        /\ GotOf(end, <<sent[1], sent[1], sent[2], sent[3]>>)
             = <<Whole(stream[1]), Dropped, Dropped, Dropped>>
        /\ GotOf(end, <<sent[2], sent[1], sent[3]>>)
             = <<Dropped, Dropped, Whole(stream[3])>>

\* Without encryption a gap is only a gap.
ASSUME GapsBeforeTheHandshake ==
  \A compression \in BOOLEAN, stream \in Streams :
    LET end  == Ends(compression, FALSE)
        sent == SentOf(end, stream, TRUE)
    IN  GotOf(end, <<sent[1], sent[1], sent[3]>>)
          = <<Whole(stream[1]), Whole(stream[1]), Whole(stream[3])>>

\* A batch of the other mode is never taken for one of this mode; a short one in
\* between spoils what follows although it is not counted.
ASSUME ModesDoNotMix ==
  \A compression, deflates \in BOOLEAN, stream \in Streams :
    LET end    == Ends(compression, TRUE)
        before == Ends(compression, FALSE)
        sent   == SentOf(end, stream, deflates)
        plain  == SentOf(before, stream, deflates)
    IN  /\ \A n \in 1..3 : GotOf(end, <<plain[n]>>) = <<Dropped>>
        /\ \A n \in 1..3 : GotOf(before, <<sent[n]>>)[1].ended \in {"dropped", "garbage"}
        /\ GotOf(end, <<Known(<<254, 1, 2>>), sent[1]>>) = <<Dropped, Dropped>>

\* Of a plain batch cut short the packets in front of the cut are handled, and none
\* that was not sent; lengths that lie are refused.
ASSUME CutBatches ==
  \A packets \in SomeBatches :
    LET bytes == pendingBatch(packets)
    IN  \A n \in 0..(Len(bytes) - 1) : IsPrefix(unpack(SubSeq(bytes, 1, n)).packets, packets)

ASSUME LyingLengths ==
  /\ unpack(<<1, 7, 3, 1>>) = [packets |-> <<<<7>>>>, ended |-> "truncated"]
  /\ unpack(<<1, 7, 128>>) = [packets |-> <<<<7>>>>, ended |-> "thrown"]
  /\ unpack(<<128, 128, 128, 128, 128, 1>>) = [packets |-> <<>>, ended |-> "thrown"]

\* Whatever algorithm a batch names, it is inflated, but for the one that says it
\* is not compressed; a stream that is cut or too long is refused, and what
\* follows one is not looked at.
ASSUME Inflated ==
  LET end    == Ends(TRUE, FALSE)
      small  == Known(<<1, 4>>)
      got(algo, body) == GotOf(end, <<Known(<<254, algo>>) \o body>>)[1]
  IN  /\ got(255, small) = Whole(<<<<4>>>>)
      /\ \A algo \in {0, 1, 254} : got(algo, Deflated(small) \o small) = Whole(<<<<4>>>>)
      /\ \A algo \in {0, 1, 254} : got(algo, small) = Dropped
      /\ got(0, <<Deflated(small)[1]>>) = Dropped
      /\ got(0, <<>>) = Whole(<<>>)
      /\ GotOf(end, <<Known(<<254>>)>>) = <<Dropped>>
      /\ zlibDecompress(Deflated(small), 1) = Failed

\* Both ends have the same key whatever zeros the point begins with, and a
\* signature is always of 96 bytes that fall apart into its two numbers.
Points == {[i \in 1..48 |-> IF i <= zeros THEN 0 ELSE i] : zeros \in 0..47}

ASSUME KeysAgree ==
  \A point \in Points :
    /\ deriveSharedSecret(point) = point
    /\ \A other \in {[i \in 1..48 |-> 1], [i \in 1..48 |-> IF i < 48 THEN 0 ELSE 1]} :
         signatureParts(signES384(Agreed(point), Agreed(other))) = Done(<<point, other>>)
=============================================================================
