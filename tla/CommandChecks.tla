----------------------------- MODULE CommandChecks -----------------------------
(* Texts and commands over bounded inputs; TLC evaluates these assumptions  *)
(* when it starts on a module that extends this one.                        *)
EXTENDS Commands

a == 97

\* Bytes of every kind: a letter, a space, control characters, those of a section
\* sign and of a copyright sign, and texts of them.
Kinds == {a, Space, 10, Del, 194, 167, 169}
Texts == UNION {[1..n -> Kinds] : n \in 0..4}

\* Each lead byte has its continuation byte, and none is alone.
WellFormed(text) ==
  \A i \in 1..(Len(text) + 1) :
    (i <= Len(text) /\ text[i] \in {167, 169}) <=> (i > 1 /\ text[i - 1] = 194)

HasSectionSign(text) == \E i \in DOMAIN text : SectionSignAt(text, i)

\* Nothing of what is to go is left of a text that is UTF-8, and all else is: the
\* rest is there in its order.
ASSUME NothingLeft ==
  \A text \in Texts :
    LET clean == sanitizeChat(text)
    IN  /\ \A i \in DOMAIN clean : clean[i] >= 32 /\ clean[i] # Del
        /\ clean # <<>> => clean[1] # Space /\ clean[Len(clean)] # Space
        /\ WellFormed(text) => /\ ~HasSectionSign(clean)
                               /\ WellFormed(clean)
                               /\ sanitizeChat(clean) = clean
                               /\ SelectSeq(clean, LAMBDA b : b = 169)
                                    = SelectSeq(text, LAMBDA b : b = 169)
                               /\ SelectSeq(clean, LAMBDA b : b = a) = SelectSeq(text, LAMBDA b : b = a)

\* A text that is not UTF-8 can have the two halves of a section sign around what is
\* removed: the result is not looked at again.
ASSUME HalvesMeet ==
  \A middle \in {SectionSign, <<10>>, <<Del>>} :
    sanitizeChat(<<194>> \o middle \o <<167>>) = SectionSign

\* The cap counts bytes, behind the trimming: it may leave half of a character, and a
\* space at the end.
Letters(n) == [i \in 1..n |-> a]
ASSUME CappedText ==
  /\ \A n \in 511..514 : Len(sanitizeChat(Letters(n))) = Min({n, kMaxChatBytes})
  /\ sanitizeChat(<<Space>> \o Letters(512) \o <<Space>>) = Letters(512)
  /\ sanitizeChat(Letters(511) \o <<194, 169>>) = Letters(511) \o <<194>>
  /\ sanitizeChat(Letters(511) \o <<Space, a>>) = Letters(511) \o <<Space>>

-----------------------------------------------------------------------------
(* The Text packet *)

ClientText(type, source, message, params) ==
  <<0, 1, type>> \o (IF type \in Sourced THEN writeString(source) ELSE <<>>) \o writeString(message)
    \o (IF type \in Parameterised THEN StringsBytes(params) ELSE <<>>)
    \o writeString(<<49>>) \o writeString(<<>>)

Params == {<<>>, <<(<<a>>)>>, [i \in 1..4 |-> <<a>>], [i \in 1..5 |-> <<a>>]}

\* Only an ordinary message of a player who is in the game goes out; all packets of
\* the types there are are read, but for more than four parameters.
ASSUME OnlyChatGoesOut ==
  \A type \in 0..12, source \in {<<>>, <<a, a>>}, message \in {<<>>, <<Space>>, <<a, 10>>},
     params \in Params, spawned \in BOOLEAN :
    LET data == <<7, 7>> \o ClientText(type, source, message, params)
    IN  /\ TextMessage(data, 2, spawned) = IF type = 1 /\ spawned THEN sanitizeChat(message) ELSE NoText
        /\ TextIsWhole(data, 2) <=> ~(type \in Parameterised /\ Len(params) > 4)

\* A packet that ends early says nothing, not even a part.
ASSUME NoPartIsSaid ==
  \A type \in {1, 2} :
    LET data == ClientText(type, <<a, a>>, <<a, a, a>>, <<>>)
    IN  \A n \in 0..(Len(data) - 4) :
          /\ TextMessage(SubSeq(data, 1, n), 0, TRUE) = NoText
          /\ ~TextIsWhole(SubSeq(data, 1, n), 0)

\* Whoever reads it, the author of a message is the session that sent it, and what is
\* read as the message is what was said.
ASSUME AuthorIsTheSession ==
  \A source \in {<<>>, <<a, a>>}, message \in {<<a>>, Letters(200)},
     state \in [displayName : {<<66>>, Letters(130)}, xuid : {<<>>, <<49>>}] :
    LET clean  == TextMessage(ClientText(1, source, message, <<>>), 0, TRUE)
        packet == TextPacket(state, clean)
        author == readString(packet, 4)
        body   == readString(packet, author.offset)
        xuid   == readString(packet, body.offset)
    IN  /\ SubSeq(packet, 1, 4) = <<kText, 0, 1, 1>>
        /\ author.value = state.displayName /\ body.value = message /\ xuid.value = state.xuid
        /\ Len(packet) = xuid.offset + 2

-----------------------------------------------------------------------------
(* Commands *)

Word(k) == [i \in 0..63 |-> IF i = k THEN 1 ELSE 0]

ClientRequest(line, origin) ==
  writeString(line) \o writeString(origin.type) \o origin.uuid \o writeString(origin.requestId)
    \o writeInt64(origin.playerUid) \o writeBool(FALSE) \o writeString(<<49>>)

Origins ==
  {[type |-> <<a, a>>, uuid |-> [i \in 1..16 |-> 255 - i], requestId |-> <<a>>, playerUid |-> Word(63)],
   [type |-> <<>>, uuid |-> [i \in 1..16 |-> 0], requestId |-> <<>>, playerUid |-> Word(0)]}

\* The client's side of an answer: its fields, one list of strings after another.
RECURSIVE StringsAt(_, _, _)
StringsAt(data, offset, n) ==
  IF n = 0 THEN [strings |-> <<>>, offset |-> offset]
  ELSE LET first == readString(data, offset)
           rest  == StringsAt(data, first.offset, n - 1)
       IN  [strings |-> <<first.value>> \o rest.strings, offset |-> rest.offset]

RECURSIVE MessagesAt(_, _, _)
MessagesAt(data, offset, n) ==
  IF n = 0 THEN [messages |-> <<>>, offset |-> offset]
  ELSE LET text    == readString(data, offset)
           success == readBool(data, text.offset)
           count   == readVarInt(data, success.offset)
           params  == StringsAt(data, count.offset, count.value)
           rest    == MessagesAt(data, params.offset, n - 1)
       IN  [messages |-> <<OutMsg(text.value, success.value = 1, params.strings)>> \o rest.messages,
            offset   |-> rest.offset]

ReadOutput(packet) ==
  LET type      == readString(packet, 1)
      requestId == readString(packet, type.offset + 16)
      playerUid == readInt64(packet, requestId.offset)
      kind      == readString(packet, playerUid.offset)
      success   == readUInt(packet, kind.offset)
      count     == readVarInt(packet, success.offset)
      msgs      == MessagesAt(packet, count.offset, count.value)
  IN  [origin |-> [type |-> type.value, uuid |-> SubSeq(packet, type.offset + 1, type.offset + 16),
                   requestId |-> requestId.value, playerUid |-> playerUid.value],
       successCount |-> success.value, messages |-> msgs.messages, rest |-> Len(packet) - msgs.offset]

Lines == {<<>>, <<Slash>>, <<Space, Slash, Space>>, <<Slash>> \o help, <<Slash, Slash>> \o list \o <<Space, a>>,
          <<Slash, 80, 79, 83>>, version, <<Slash, 72>> \o SubSeq(help, 2, 3), <<a, Slash>>}
Playing == {<<>>, <<(<<66>>)>>, <<(<<66>>), (<<a, a>>), (<<Comma>>)>>}

\* The one who asked gets one answer, knows it by the request it belongs to, and is told
\* of success just when the command is one of the list's.
ASSUME AnswersTheirRequest ==
  \A line \in Lines, origin \in Origins, playing \in Playing :
    LET packet == handleCommandRequest(<<3>> \o ClientRequest(line, origin), 1, TRUE, playing)
        output == ReadOutput(packet)
        name   == lowerFirstToken(line)
        known  == \E i \in DOMAIN getBuiltinCommands : getBuiltinCommands[i] = name
    IN  /\ packet[1] = kCommandOutput
        /\ output.origin = origin
        /\ output.rest = 1
        /\ output.successCount = Cardinality({x \in {1} : known})
        /\ output.messages # <<>>
        /\ \A i \in DOMAIN output.messages : output.messages[i].success = known
        /\ ~known => output.messages[1].params = <<name>>

\* The list names everybody who is in the game, and nobody twice.
ASSUME ListIsComplete ==
  \A playing \in Playing :
    LET output == ReadOutput(handleCommandRequest(ClientRequest(list, CHOOSE o \in Origins : TRUE),
                                                  0, TRUE, playing))
    IN  /\ output.messages[1].text[2] = Len(playing)
        /\ Len(output.messages[2].text)
             = Len(FlattenSeq(playing)) + 2 * (IF playing = <<>> THEN 0 ELSE Len(playing) - 1)

\* A request that is cut short, or comes too early, has no answer.
ASSUME NoPartIsRun ==
  \A origin \in Origins :
    LET data == ClientRequest(<<Slash>> \o help, origin)
    IN  /\ \A n \in 0..(Len(data) - 1) : handleCommandRequest(SubSeq(data, 1, n), 0, TRUE, <<>>) = <<>>
        /\ handleCommandRequest(data, 0, FALSE, <<>>) = <<>>

-----------------------------------------------------------------------------
(* The list of commands *)

\* What a client finds behind the commands of a list: the offset, past each of them.
RECURSIVE BehindCommands(_, _, _)
BehindCommands(packet, offset, n) ==
  IF n = 0 THEN offset
  ELSE LET name == readString(packet, offset)
           text == readString(packet, name.offset)
           permission == readString(packet, text.offset + 2)
       IN  IF lowerFirstToken(<<Slash>> \o name.value) = name.value
           THEN BehindCommands(packet, permission.offset + 4 + 4, n - 1) ELSE -1

\* The eight lists of the layout the source describes are all of the packet.
ASSUME EightLists ==
  LET packet == sendAvailableCommands(TRUE)
      count  == readVarInt(packet, 6)
  IN  /\ count.value = Len(getBuiltinCommands)
      /\ Len(packet) = BehindCommands(packet, count.offset, count.value) + 2

\* The packet without commands has one list more than that.
ASSUME NinthList == Len(sendAvailableCommands(FALSE)) = 1 + 8 + 1
=============================================================================
