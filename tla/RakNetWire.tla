----------------------------- MODULE RakNetWire -----------------------------
(***************************************************************************)
(* The bytes of the RakNet layer: datagrams of frames, acknowledgements,   *)
(* the offline handshake and the connected control messages                *)
(* (LBNet/Packets, the first bytes LBNet/Server/PacketHandler.cpp looks    *)
(* at).                                                                    *)
(*                                                                         *)
(* Data is a sequence of bytes; the code's data[i] is data[i + 1] here.    *)
(* The readers of this layer check no bounds: where the code reads past    *)
(* the data it was given, the answer is Outside, and nothing is said of    *)
(* what the build makes of it.  64-bit fields are the bytes they consist   *)
(* of, most significant first.                                             *)
(***************************************************************************)
EXTENDS Codecs, SequencesExt

Outside == [pos |-> -1]

-----------------------------------------------------------------------------
(* Frames *)

Reliabilities == 0..7
isReliable(r)  == r \in {2, 3, 4, 6, 7}
isSequenced(r) == r \in {1, 4}
isOrdered(r)   == r \in {1, 3, 4, 7}

writeUInt16BE(v) == <<(v \div 256) % 256, v % 256>>

FrameFlags(frame) == 32 * frame.Reliability + (IF frame.isSplit THEN 16 ELSE 0)
ReliabilityOf(flags) == flags \div 32
SplitOf(flags)       == (flags \div 16) % 2 = 1

\* A length in bits, in the 16 bits there are for it, and back.
Bits(n)       == (8 * n) % 65536
WholeBytes(n) == (n + 7) \div 8

\* Each part of the header is there only where the reliability has a use for it.
ReliablePart(frame) ==
  IF isReliable(frame.Reliability) THEN writeUInt24LE(frame.reliableIndex) ELSE <<>>
SequencedPart(frame) ==
  IF isSequenced(frame.Reliability) THEN writeUInt24LE(frame.sequencingIndex) ELSE <<>>
OrderedPart(frame) ==
  IF isOrdered(frame.Reliability)
  THEN writeUInt24LE(frame.orderingIndex) \o <<frame.orderingChannel>> ELSE <<>>
SplitPart(frame) ==
  IF frame.isSplit
  THEN writeIntBE(frame.splitCount) \o writeUInt16BE(frame.splitId) \o writeIntBE(frame.splitIndex)
  ELSE <<>>

encodeFrame(frame) ==
  (<<FrameFlags(frame)>> \o writeUInt16BE(Bits(Len(frame.buffer)))) \o ReliablePart(frame)
    \o SequencedPart(frame) \o OrderedPart(frame) \o SplitPart(frame) \o frame.buffer

encodeFrameSetPacket(packet) ==
  <<packet.flags>> \o writeUInt24LE(packet.sequenceNumber)
    \o FlattenSeq([i \in DOMAIN packet.frames |-> encodeFrame(packet.frames[i])])

\* BinaryReader, at a place known to be inside.
Int16BE(data, pos)  == 256 * data[pos + 1] + data[pos + 2]
Int24LE(data, pos)  == data[pos + 1] + 256 * data[pos + 2] + 65536 * data[pos + 3]
Int32BE(data, pos)  == 16777216 * data[pos + 1] + 65536 * data[pos + 2]
                         + 256 * data[pos + 3] + data[pos + 4]

Slice(data, pos, n) == SubSeq(data, pos + 1, pos + n)

\* How wide the parts of a header are, and where the one after them begins.
ReliableWidth(r)  == IF isReliable(r) THEN 3 ELSE 0
SequencedWidth(r) == IF isSequenced(r) THEN 3 ELSE 0
OrderedWidth(r)   == IF isOrdered(r) THEN 4 ELSE 0
SplitWidth(split) == IF split THEN 10 ELSE 0

\* A field the header has no part for is zero.
OrZero(there, value) == IF there THEN value ELSE 0

\* One turn of the decoder's loop.
readFrame(data, pos) ==
  IF pos + 3 > Len(data) THEN Outside ELSE
  LET r      == ReliabilityOf(data[pos + 1])
      split  == SplitOf(data[pos + 1])
      length == WholeBytes(Int16BE(data, pos + 1))
      seqAt  == pos + 3 + ReliableWidth(r)
      ordAt  == seqAt + SequencedWidth(r)
      splAt  == ordAt + OrderedWidth(r)
      bodyAt == splAt + SplitWidth(split)
  IN  IF bodyAt + length > Len(data) THEN Outside
      ELSE [pos   |-> bodyAt + length,
            frame |->
              [Reliability     |-> r,
               isSplit         |-> split,
               reliableIndex   |-> OrZero(isReliable(r), Int24LE(data, pos + 3)),
               sequencingIndex |-> OrZero(isSequenced(r), Int24LE(data, seqAt)),
               orderingIndex   |-> OrZero(isOrdered(r), Int24LE(data, ordAt)),
               orderingChannel |-> OrZero(isOrdered(r), data[ordAt + 4]),
               splitCount      |-> OrZero(split, Int32BE(data, splAt)),
               splitId         |-> OrZero(split, Int16BE(data, splAt + 4)),
               splitIndex      |-> OrZero(split, Int32BE(data, splAt + 6)),
               buffer          |-> Slice(data, bodyAt, length)]]

\* What gets across of a frame: the fields its header has a part for.
Carried(frame) ==
  LET r == frame.Reliability
      s == frame.isSplit
  IN  [Reliability     |-> r,
       isSplit         |-> s,
       reliableIndex   |-> OrZero(isReliable(r), frame.reliableIndex),
       sequencingIndex |-> OrZero(isSequenced(r), frame.sequencingIndex),
       orderingIndex   |-> OrZero(isOrdered(r), frame.orderingIndex),
       orderingChannel |-> OrZero(isOrdered(r), frame.orderingChannel),
       splitCount      |-> OrZero(s, frame.splitCount),
       splitId         |-> OrZero(s, frame.splitId),
       splitIndex      |-> OrZero(s, frame.splitIndex),
       buffer          |-> frame.buffer]

\* The frames from each place on; a frame that is not all there ends them.
decodeFrameSetPacket(data) ==
  LET framesFrom[pos \in 0..Len(data)] ==
        IF pos = Len(data) THEN <<>>
        ELSE LET read == readFrame(data, pos)
             IN  IF read = Outside THEN <<Outside>>
                 ELSE <<read.frame>> \o framesFrom[read.pos]
  IN  IF Len(data) < 4 THEN Outside
      ELSE [flags |-> data[1], sequenceNumber |-> Int24LE(data, 1), frames |-> framesFrom[4]]

\* How long a fragment may get for the MTU the client asked for.
kFrameOverhead == 68
maxFragmentSize(mtu) == IF mtu > kFrameOverhead THEN mtu - kFrameOverhead ELSE 1024

-----------------------------------------------------------------------------
(* Acknowledgements: a kind, a count of records and the records.  What the *)
(* server writes has one record of one number.                             *)

AckKind  == 192
NackKind == 160

AcknowledgeBytes(kind, seqNum) == <<kind, 0, 1, 1>> \o writeUInt24LE(seqNum)

\* Of what the client writes, the number at one place is taken, whether it is
\* the only one, the first of several, or the beginning of a range.
AcknowledgedNumber(data) == Int24LE(data, 4)

-----------------------------------------------------------------------------
(* The offline handshake *)

RAKNET_MAGIC == <<0, 255, 255, 0, 254, 254, 254, 254, 253, 253, 253, 253, 18, 52, 86, 120>>
SERVER_GUID  == <<17, 34, 51, 68, 85, 102, 119, 136>>

magicOK(data) == SubSeq(data, 2, 17) = RAKNET_MAGIC

\* No answer to a message that is too short or has other magic.
NoReply == <<>>

\* The ping's time is repeated, as much of it as the ping had.
sendUnconnectedPong(ping, motd) ==
  <<28>> \o SubSeq(ping, 2, IF Len(ping) < 9 THEN Len(ping) ELSE 9)
    \o SERVER_GUID \o RAKNET_MAGIC \o writeUInt16BE(Len(motd) % 65536) \o motd

sendOpenConnectionReplyOne == <<6>> \o RAKNET_MAGIC \o SERVER_GUID \o <<0>> \o writeUInt16BE(1492)

decodeOpenConnectionRequestOne(data) ==
  IF Len(data) < 18 \/ ~magicOK(data) THEN NoReply ELSE sendOpenConnectionReplyOne

\* address is four bytes and a port.
AddressBytes(address) == <<4>> \o address.ip \o writeUInt16BE(address.port)

sendOpenConnectionReplyTwo(address, mtu) ==
  <<8>> \o RAKNET_MAGIC \o SERVER_GUID \o AddressBytes(address) \o writeUInt16BE(mtu) \o <<0>>

\* The MTU is looked for from the end, so that any form of the address between
\* it and the magic will do.
RequestedMtu(data) == Int16BE(data, Len(data) - 10)

decodeOpenConnectionRequestTwo(data, address) ==
  IF Len(data) < 25 \/ ~magicOK(data) THEN [reply |-> NoReply, mtu |-> -1]
  ELSE [reply |-> sendOpenConnectionReplyTwo(address, RequestedMtu(data)),
        mtu   |-> RequestedMtu(data)]

-----------------------------------------------------------------------------
(* Connected control messages, each alone in a datagram. *)

ControlDatagram(sequenceNumber, r, reliableIndex, body) ==
  encodeFrameSetPacket(
    [flags |-> 132, sequenceNumber |-> sequenceNumber,
     frames |-> <<[Reliability |-> r, isSplit |-> FALSE, reliableIndex |-> reliableIndex,
                   sequencingIndex |-> 0, orderingIndex |-> 0, orderingChannel |-> 0,
                   splitCount |-> 0, splitId |-> 0, splitIndex |-> 0, buffer |-> body]>>])

\* A 64-bit sum, byte by byte from the last one.
Plus1000(time) ==
  LET carry[i \in 1..9] ==
        IF i = 9 THEN 0
        ELSE (time[i] + (IF i = 8 THEN 232 ELSE IF i = 7 THEN 3 ELSE 0) + carry[i + 1]) \div 256
  IN  [i \in 1..8 |->
        (time[i] + (IF i = 8 THEN 232 ELSE IF i = 7 THEN 3 ELSE 0) + carry[i + 1]) % 256]

\* The client's proofs are skipped; their lengths are taken for granted.
decodeConnectionRequest(data) ==
  LET needed == IF Len(data) < 18 \/ data[18] = 0 THEN 18
                ELSE IF Len(data) < 51 \/ data[51] = 0 THEN 51 ELSE 51 + 294
  IN  IF Len(data) < needed THEN Outside
      ELSE [clientGuid |-> SubSeq(data, 2, 9), incomingTimeStamp |-> SubSeq(data, 10, 17)]

NoAddress == [ip |-> <<0, 0, 0, 0>>, port |-> 0]

ConnectionRequestAcceptedBody(client, index, server, pingTime) ==
  <<16>> \o AddressBytes(client) \o writeUInt16BE(index) \o AddressBytes(server)
    \o FlattenSeq([i \in 1..9 |-> AddressBytes(NoAddress)]) \o pingTime \o Plus1000(pingTime)

sendConnectionRequestAccepted(state, client, server, pingTime) ==
  ControlDatagram(state.nextSeqNum, 2, state.nextReliableIndex,
                  ConnectionRequestAcceptedBody(client, state.index, server, pingTime))

\* The time of a connected ping is taken to be there.
PingTime(data) == IF Len(data) < 9 THEN Outside ELSE [time |-> SubSeq(data, 2, 9)]

sendConnectedPong(state, pingTime, now) ==
  ControlDatagram(state.nextSeqNum, 0, 0, <<3>> \o pingTime \o now)
=============================================================================
