----------------------------- MODULE WireChecks -----------------------------
(***************************************************************************)
(* What RakNetWire reads and writes, against the peer's side of it.  TLC   *)
(* evaluates these assumptions when it starts on a module that extends     *)
(* this one.                                                               *)
(***************************************************************************)
EXTENDS RakNetWire

-----------------------------------------------------------------------------
(* Datagrams *)

SomeFrames ==
  {[Reliability |-> r, isSplit |-> split, reliableIndex |-> 16777215,
    sequencingIndex |-> 66051, orderingIndex |-> 256, orderingChannel |-> 3,
    splitCount |-> 2147483647, splitId |-> 65535, splitIndex |-> 65536, buffer |-> buffer] :
     r \in Reliabilities, split \in BOOLEAN, buffer \in {<<>>, <<254>>, <<0, 96, 255>>}}

Datagram(frames) == [flags |-> 132, sequenceNumber |-> 16777214, frames |-> frames]

\* Any two frames come back, each with its own fields and payload, whatever
\* their reliabilities are.
ASSUME DatagramsReadBack ==
  \A f, g \in SomeFrames :
    decodeFrameSetPacket(encodeFrameSetPacket(Datagram(<<f, g>>)))
      = Datagram(<<Carried(f), Carried(g)>>)

\* Of a datagram cut short, what is read are frames that were sent, in order;
\* then the code reads past the data, unless the cut is between two frames.
ASSUME CutDatagrams ==
  \A f, g \in {h \in SomeFrames : h.Reliability \in {0, 3} /\ h.buffer = <<254>>} :
    LET bytes == encodeFrameSetPacket(Datagram(<<f, g>>))
        sent  == <<Carried(f), Carried(g)>>
    IN  \A n \in 4..(Len(bytes) - 1) :
          LET got == decodeFrameSetPacket(SubSeq(bytes, 1, n)).frames
          IN  \/ IsPrefix(got, sent)
              \/ got # <<>> /\ Last(got) = Outside /\ IsPrefix(Front(got), sent)

\* A fragment of 8191 bytes is the longest whose length fits.  The MTU a client
\* asks for is not looked at: above 8259 the length that is sent is wrong.
ASSUME FragmentLengths ==
  \A mtu \in {0, 68, 69, 576, 1492, 8259, 8260, 16451, 65535} :
    LET longest == maxFragmentSize(mtu)
    IN  (WholeBytes(Bits(longest)) = longest) <=> mtu <= 8259

-----------------------------------------------------------------------------
(* Acknowledgements *)

Ranges == {<<a, b>> \in {0, 1, 255, 65536, 16777215} \X {0, 1, 255, 65536, 16777215} : a <= b}

\* A record of one number is read back.  Of a range, and of several records,
\* only the first number counts: the others stay in sentPackets, and are not
\* sent again, until the client names them alone.
ASSUME AcknowledgementsRead ==
  \A range \in Ranges, kind \in {AckKind, NackKind} :
    /\ AcknowledgedNumber(AcknowledgeBytes(kind, range[1])) = range[1]
    /\ AcknowledgedNumber(<<kind, 0, 1, 0>> \o writeUInt24LE(range[1]) \o writeUInt24LE(range[2]))
         = range[1]
    /\ AcknowledgedNumber(<<kind, 0, 2, 1>> \o writeUInt24LE(range[1])
                            \o <<1>> \o writeUInt24LE(range[2])) = range[1]

-----------------------------------------------------------------------------
(* The handshake, with the messages the client writes. *)

SomeAddresses == {[ip |-> <<127, 0, 0, 1>>, port |-> 19132], [ip |-> <<255, 1, 0, 8>>, port |-> 255]}
IPv6 == <<6>> \o [i \in 1..28 |-> i]
Guid == <<1, 2, 3, 4, 5, 6, 7, 8>>
Mtus == {0, 255, 256, 576, 1492, 65535}

Request2(address, mtu) == <<7>> \o RAKNET_MAGIC \o address \o writeUInt16BE(mtu) \o Guid

\* The MTU the session keeps, and the one the client is told, is the one it asked
\* for, for both forms of the server's address; the reply has the client's own.
ASSUME MtuAgreed ==
  \A client \in SomeAddresses, mtu \in Mtus :
    \A form \in {AddressBytes(client), IPv6} :
      LET answer == decodeOpenConnectionRequestTwo(Request2(form, mtu), client)
      IN  /\ answer.mtu = mtu
          /\ Int16BE(answer.reply, 32) = mtu
          /\ SubSeq(answer.reply, 27, 30) = client.ip
          /\ Int16BE(answer.reply, 30) = client.port

\* A request with one byte of the magic changed, or cut before its last part,
\* gets no answer.  Cut later, it is answered with an MTU made of other fields.
ASSUME OnlyRakNetAnswered ==
  LET whole == Request2(AddressBytes([ip |-> <<10, 0, 0, 1>>, port |-> 1]), 1492)
      first == <<5>> \o RAKNET_MAGIC \o <<11, 0, 0>>
      any   == [ip |-> <<10, 0, 0, 2>>, port |-> 2]
  IN  /\ decodeOpenConnectionRequestOne(first) # NoReply
      /\ \A n \in 0..17 : decodeOpenConnectionRequestOne(SubSeq(first, 1, n)) = NoReply
      /\ \A i \in 2..17 :
           LET wrong(data) == [data EXCEPT ![i] = (@ + 1) % 256]
           IN  /\ decodeOpenConnectionRequestOne(wrong(first)) = NoReply
               /\ decodeOpenConnectionRequestTwo(wrong(whole), any).reply = NoReply
      /\ \A n \in 0..24 : decodeOpenConnectionRequestTwo(SubSeq(whole, 1, n), any).reply = NoReply
      /\ \A n \in 25..33 :
           LET answer == decodeOpenConnectionRequestTwo(SubSeq(whole, 1, n), any)
           IN  answer.reply # NoReply /\ answer.mtu # 1492

\* A ping gets its own time back, with the MOTD behind the magic; the answer to
\* a ping without a whole time is as much shorter, and its fields are not where
\* a client looks for them.
ASSUME PingAnswered ==
  LET ping == <<1>> \o Guid \o RAKNET_MAGIC
      motd == <<77, 67, 80, 69>>
  IN  /\ LET pong == sendUnconnectedPong(ping, motd)
         IN  /\ SubSeq(pong, 2, 9) = Guid
             /\ SubSeq(pong, 10, 17) = SERVER_GUID
             /\ SubSeq(pong, 18, 33) = RAKNET_MAGIC
             /\ SubSeq(pong, 36, 35 + Int16BE(pong, 33)) = motd
      /\ \A n \in 1..8 :
           LET pong == sendUnconnectedPong(SubSeq(ping, 1, n), motd)
           IN  Len(pong) < 33 \/ SubSeq(pong, 18, 33) # RAKNET_MAGIC

-----------------------------------------------------------------------------
(* Control messages *)

Times == {<<0, 0, 0, 0, 0, 0, 0, 0>>, <<0, 0, 0, 0, 0, 0, 255, 255>>,
          <<0, 0, 0, 0, 7, 255, 252, 24>>, <<0, 0, 0, 0, 0, 1, 252, 23>>}

\* Both times are where the client reads them, a second apart; ten addresses
\* stand before them.
ASSUME TimesInAccepted ==
  \A time \in Times, client, server \in SomeAddresses :
    LET state == [nextSeqNum |-> 2, nextReliableIndex |-> 1, index |-> 258]
        frame == decodeFrameSetPacket(
                   sendConnectionRequestAccepted(state, client, server, time)).frames[1]
    IN  /\ frame.Reliability = 2 /\ frame.reliableIndex = 1
        /\ Len(frame.buffer) = 1 + 7 + 2 + 10 * 7 + 16
        /\ SubSeq(frame.buffer, 9, 10) = <<1, 2>>
        /\ SubSeq(frame.buffer, 81, 88) = time
        /\ Int32BE(SubSeq(frame.buffer, 89, 96), 4) = Int32BE(time, 4) + 1000

\* The carry goes through all eight bytes.
ASSUME CarriesThrough ==
  /\ Plus1000(<<0, 255, 255, 255, 255, 255, 255, 24>>) = <<1, 0, 0, 0, 0, 0, 3, 0>>
  /\ Plus1000([i \in 1..8 |-> 255]) = <<0, 0, 0, 0, 0, 0, 3, 231>>

\* The time of a connection request or a ping is the one that comes back; a
\* message too short for it is read past its end.
ASSUME ControlTimes ==
  LET request == <<9>> \o Guid \o <<0, 1, 2, 3, 4, 5, 6, 7>>
      ping    == <<0>> \o Guid
      pong    == sendConnectedPong([nextSeqNum |-> 0], Guid, [i \in 1..8 |-> 9])
  IN  /\ decodeConnectionRequest(request \o <<0>>).incomingTimeStamp = SubSeq(request, 10, 17)
      /\ \A n \in 1..17 : decodeConnectionRequest(SubSeq(request, 1, n)) = Outside
      /\ decodeConnectionRequest(request \o <<1>>) = Outside
      /\ decodeConnectionRequest(request \o <<1>> \o [i \in 1..32 |-> 0] \o <<0>>) # Outside
      /\ PingTime(ping).time = Guid
      /\ \A n \in 0..8 : PingTime(SubSeq(ping, 1, n)) = Outside
      /\ SubSeq(decodeFrameSetPacket(pong).frames[1].buffer, 2, 9) = Guid
=============================================================================
