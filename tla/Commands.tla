------------------------------- MODULE Commands -------------------------------
(***************************************************************************)
(* What a player writes (LBBNet/Packets/Chat.cpp): the text that may go    *)
(* out, the Text packet it arrives and leaves in, commands and their       *)
(* answers, and the list of commands (AvailableCommandsPacket.cpp).  How   *)
(* often a player may write is in Chat.                                    *)
(*                                                                         *)
(* Text is bytes.  The fixed wording of an answer, which nothing reads, is *)
(* one byte, Wording.                                                      *)
(***************************************************************************)
EXTENDS Codecs64, SequencesExt

kMaxChatBytes == 512

Space   == 32
Slash   == 47
Comma   == 44
Del     == 127
Wording == 126

\* A section sign, which begins a formatting code, is two bytes.
SectionSign == <<194, 167>>

SectionSignAt(in, i) == i >= 1 /\ i < Len(in) /\ <<in[i], in[i + 1]>> = SectionSign

\* What the sanitized form of a text keeps of it.
IsKept(in, i) ==
  ~SectionSignAt(in, i) /\ ~SectionSignAt(in, i - 1) /\ in[i] >= 32 /\ in[i] # Del

\* find_first_not_of, find_last_not_of and substr.
Trimmed(text) ==
  LET solid == {i \in DOMAIN text : text[i] # Space}
  IN  IF solid = {} THEN <<>> ELSE SubSeq(text, Min(solid), Max(solid))

Capped(text, size) == SubSeq(text, 1, Min({Len(text), size}))

sanitizeChat(in) ==
  LET kept == SelectSeq([i \in DOMAIN in |-> i], LAMBDA i : IsKept(in, i))
  IN  Capped(Trimmed([k \in DOMAIN kept |-> in[kept[k]]]), kMaxChatBytes)

-----------------------------------------------------------------------------
(* The Text packet *)

kText == 9

\* The offset behind n strings, -1 if the packet ends before them.
RECURSIVE BehindStrings(_, _, _)
BehindStrings(data, offset, n) ==
  IF n = 0 \/ offset = -1 THEN offset
  ELSE BehindStrings(data, readString(data, offset).offset, n - 1)

\* The types, by the fields that come with the message.
Sourced       == {1, 7, 8}
MessageOnly   == {0, 5, 6, 9, 10, 11}
Parameterised == {2, 3, 4}

\* A text to be sanitized, or none: of another type, for nobody, or out of range.
NoText == <<>>

TextMessage(data, offset, spawned) ==
  LET type    == readUByte(data, offset + 2)
      behind  == IF type.value \in Sourced THEN BehindStrings(data, type.offset, 1) ELSE type.offset
      message == readString(data, behind)
  IN  IF type = OutOfRange \/ behind = -1 \/ type.value # 1 \/ ~spawned \/ message.offset = -1
      THEN NoText
      ELSE sanitizeChat(message.value)

\* Whether the fields a type says it has are there: without them the packet is
\* reported as malformed.
TextIsWhole(data, offset) ==
  LET type    == readUByte(data, offset + 2)
      behind  == IF type.value \in Sourced THEN BehindStrings(data, type.offset, 1) ELSE type.offset
      message == readString(data, behind)
      count   == readVarInt(data, message.offset)
  IN  /\ type # OutOfRange
      /\ type.value \in Sourced \union MessageOnly \union Parameterised =>
           behind # -1 /\ message.offset # -1
      /\ type.value \in Parameterised =>
           /\ count # OutOfRange
           /\ count.value <= 4
           /\ BehindStrings(data, count.offset, count.value) # -1

\* The author is the session's, whatever source the packet names.
TextPacket(state, message) ==
  writeVarInt(kText) \o writeBool(FALSE) \o <<1, 1>> \o writeString(state.displayName)
    \o writeString(message) \o writeString(state.xuid) \o writeString(<<>>) \o writeBool(FALSE)

-----------------------------------------------------------------------------
(* Commands *)

help    == <<104, 101, 108, 112>>
list    == <<108, 105, 115, 116>>
pos     == <<112, 111, 115>>
version == <<118, 101, 114, 115, 105, 111, 110>>

getBuiltinCommands == <<help, list, pos, version>>

ToLower(ch) == IF ch \in 65..90 THEN ch + 32 ELSE ch

\* Spaces and slashes before it, in any order, are none of the name.
lowerFirstToken(line) ==
  LET start == {i \in DOMAIN line : line[i] \notin {Space, Slash}}
      from  == IF start = {} THEN Len(line) + 1 ELSE Min(start)
      ends  == {i \in from..Len(line) : line[i] = Space}
      token == SubSeq(line, from, IF ends = {} THEN Len(line) ELSE Min(ends) - 1)
  IN  [i \in DOMAIN token |-> ToLower(token[i])]

OutMsg(text, success, params) == [text |-> text, success |-> success, params |-> params]
Said(text) == OutMsg(text, TRUE, <<>>)

\* The names with a comma and a space between them.
Joined(names) ==
  FlattenSeq([i \in DOMAIN names |-> (IF i = 1 THEN <<>> ELSE <<Comma, Space>>) \o names[i]])

\* What a command says; playing are the names of the spawned.
Answer(name, playing) ==
  CASE name = help    -> <<Said(<<Wording>>)>>
                           \o [i \in DOMAIN getBuiltinCommands |->
                                 Said(<<Slash>> \o getBuiltinCommands[i] \o <<Wording>>)]
    [] name = list    -> <<Said(<<Wording, Len(playing), Wording>>), Said(Joined(playing))>>
    [] name = pos     -> <<Said(<<Wording>>)>>
    [] name = version -> <<Said(<<Wording>>)>>
    [] OTHER          -> <<OutMsg(<<Wording>>, FALSE, <<name>>)>>

kCommandOutput == 79

StringsBytes(strings) ==
  writeVarInt(Len(strings)) \o FlattenSeq([i \in DOMAIN strings |-> writeString(strings[i])])

sendCommandOutput(origin, msgs, successCount) ==
  writeVarInt(kCommandOutput) \o writeString(origin.type) \o origin.uuid
    \o writeString(origin.requestId) \o writeInt64(origin.playerUid) \o writeString(<<Wording>>)
    \o writeUInt(successCount) \o writeVarInt(Len(msgs))
    \o FlattenSeq([i \in DOMAIN msgs |->
         writeString(msgs[i].text) \o writeBool(msgs[i].success) \o StringsBytes(msgs[i].params)])
    \o writeBool(FALSE)

\* A request, as long as the packet has all of its fields.
NoRequest == [line |-> <<>>, whole |-> FALSE]

CommandRequest(data, offset) ==
  LET line      == readString(data, offset)
      type      == readString(data, line.offset)
      requestId == readString(data, type.offset + 16)
      playerUid == readInt64(data, requestId.offset)
  IN  IF line.offset = -1 THEN NoRequest
      ELSE IF type.offset = -1 THEN NoRequest
      ELSE IF ~need(data, type.offset, 16) THEN NoRequest
      ELSE IF requestId.offset = -1 THEN NoRequest
      ELSE IF playerUid.offset = -1 THEN NoRequest
      ELSE IF BehindStrings(data, playerUid.offset + 1, 1) = -1 THEN NoRequest
      ELSE [line |-> line.value, whole |-> TRUE,
            origin |-> [type |-> type.value,
                        uuid |-> SubSeq(data, type.offset + 1, type.offset + 16),
                        requestId |-> requestId.value, playerUid |-> playerUid.value]]

\* The answer, none to a request that is cut short or comes before the spawn.
handleCommandRequest(data, offset, spawned, playing) ==
  LET request == CommandRequest(data, offset)
      name    == lowerFirstToken(request.line)
      known   == name \in ToSet(getBuiltinCommands)
  IN  IF ~request.whole \/ ~spawned THEN <<>>
      ELSE sendCommandOutput(request.origin, Answer(name, playing), IF known THEN 1 ELSE 0)

-----------------------------------------------------------------------------
(* The list of commands a client completes from *)

kAvailableCommands == 76

CommandEntry(name) ==
  writeString(name) \o writeString(<<Wording>>) \o writeUShort(0) \o writeString(<<Wording>>)
    \o <<255, 255, 255, 255>> \o writeVarInt(0) \o writeVarInt(1) \o writeBool(FALSE)
    \o writeVarInt(0)

Counts(n) == FlattenSeq([i \in 1..n |-> writeVarInt(0)])

sendAvailableCommands(enableCommands) ==
  writeVarInt(kAvailableCommands)
    \o IF enableCommands
       THEN Counts(5) \o writeVarInt(Len(getBuiltinCommands))
              \o FlattenSeq([i \in DOMAIN getBuiltinCommands |-> CommandEntry(getBuiltinCommands[i])])
              \o Counts(2)
       ELSE Counts(9)
=============================================================================
