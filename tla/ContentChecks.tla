---------------------------- MODULE ContentChecks ----------------------------
(***************************************************************************)
(* ContentPackets, read by the layouts that the comments of the source     *)
(* give for the packets: every packet must be read to its last byte, and   *)
(* packets that say the same thing must say it alike.                      *)
(***************************************************************************)
EXTENDS ContentPackets

-----------------------------------------------------------------------------
(* Reading by a layout *)

Times(n, kinds) == FlattenSeq([i \in 1..n |-> kinds])

\* A field of a layout; an array in which nothing may be is its count.
Field(kind, data, offset) ==
  CASE kind \in {"varint", "none"} -> readVarInt(data, offset)
    [] kind = "zigzag"   -> readZigZag32(data, offset)
    [] kind = "varint64" -> readVarInt64(data, offset)
    [] kind = "zigzag64" -> readZigZag64(data, offset)
    [] kind = "u8"       -> readUByte(data, offset)
    [] kind = "bool"     -> readBool(data, offset)
    [] kind = "u16"      -> readUShort(data, offset)
    [] kind = "i16"      -> readShort(data, offset)
    [] kind = "u32"      -> readUInt(data, offset)
    [] kind = "beint"    -> readUIntBE(data, offset)
    [] kind = "float"    -> readFloat(data, offset)
    [] kind = "u64"      -> readUInt64(data, offset)
    [] kind = "string"   -> readString(data, offset)
    [] kind = "compound" -> IF need(data, offset, 3) /\ SubSeq(data, offset + 1, offset + 3) = <<10, 0, 0>>
                            THEN [value |-> 0, offset |-> offset + 3] ELSE OutOfRange

\* The offsets behind the fields a to b of a layout, of which the first is at an
\* offset; from the end of a packet that is too short on all -1.
RECURSIVE OffsetsBehind(_, _, _, _, _)
OffsetsBehind(layout, data, a, b, offset) ==
  IF a = b THEN <<IF offset = -1 THEN -1 ELSE Field(layout[a], data, offset).offset>>
  ELSE LET mid   == (a + b) \div 2
           first == OffsetsBehind(layout, data, a, mid, offset)
       IN  first \o OffsetsBehind(layout, data, mid + 1, b, first[Len(first)])

\* The offsets of the fields of a packet, and the one behind the last.
Offsets(layout, data) == <<0>> \o OffsetsBehind(layout, data, 1, Len(layout), 0)

Values(layout, data) ==
  LET at == Offsets(layout, data)
  IN  [i \in DOMAIN layout |-> Field(layout[i], data, at[i]).value]

\* It is read to its last byte, and the arrays said to be empty are.
Fits(layout, data) ==
  LET at == Offsets(layout, data)
  IN  /\ at[Len(layout) + 1] = Len(data)
      /\ \A i \in DOMAIN layout : layout[i] = "none" => Field(layout[i], data, at[i]).value = 0

-----------------------------------------------------------------------------
(* The layouts *)

BlockPos == <<"zigzag", "zigzag", "zigzag">>
Vec3     == <<"float", "float", "float">>

\* StartGamePacket.cpp, fields 0 to 4; of field 5 the parts 0 to 23, 24 to 39 and
\* 40 to 49; fields 6 to 17; fields 18 to 22 and what follows.
StartLayout ==
  <<"varint", "zigzag64", "varint64", "zigzag">> \o Vec3 \o <<"float", "float">>
    \o <<"u64", "i16", "string", "zigzag", "zigzag", "zigzag", "bool", "zigzag">> \o BlockPos
    \o <<"bool", "zigzag", "bool", "bool", "zigzag", "varint", "bool", "string", "float", "float">>
    \o Times(3, <<"bool">>) \o <<"varint", "varint", "bool", "bool">>
    \o <<"none", "u32">> \o Times(3, <<"bool">>) \o <<"zigzag", "u32">> \o Times(10, <<"bool">>)
    \o <<"string", "u32", "u32", "bool", "string", "string", "bool", "u8", "bool", "zigzag", "bool">>
    \o <<"string", "string", "string", "bool", "zigzag", "bool", "u64", "zigzag", "none", "string">>
    \o <<"bool", "string", "compound">>
    \o Times(3, <<"u64">>) \o Times(4, <<"bool">>) \o Times(4, <<"string">>)

StackLayout == <<"varint", "bool", "none", "string", "u32", "bool", "bool">>
InfoLayout  == <<"varint", "bool", "bool", "bool", "bool", "u64", "u64", "string", "none">>

\* An attribute: min, max, value, their defaults, its name, its modifiers.
AttributeLayout == Times(6, <<"float">>) \o <<"string", "none">>
AttributesLayout(n) ==
  <<"varint", "varint64", "varint">> \o Times(n, AttributeLayout) \o <<"varint64">>

AbilitiesLayout ==
  <<"varint", "u64", "u8", "u8", "u8", "u16", "u32", "u32", "float", "float", "float">>

ItemLayout      == <<"i16", "u16", "varint", "bool", "varint", "none">>
ContentLayout(n) == <<"varint", "varint", "varint">> \o Times(n, ItemLayout) \o <<"u8", "bool">> \o ItemLayout

EmptyStackLayout == <<"zigzag", "u16", "varint", "zigzag", "none">>
StackItemLayout  == <<"zigzag", "u16", "varint", "zigzag", "varint", "i16", "u32", "u32">>
CreativeLayout(n) ==
  <<"varint", "varint", "u8", "string">> \o EmptyStackLayout \o <<"varint">>
    \o Times(n, <<"varint">> \o StackItemLayout \o <<"varint">>)

BiomeLayout(tags) ==
  <<"i16", "u16">> \o Times(5, <<"float">>) \o <<"u32", "bool", "bool", "varint">>
    \o Times(tags, <<"u16">>) \o <<"bool">>

-----------------------------------------------------------------------------
(* Checks *)

\* Every packet with the same bytes each time is read to its last byte.
ASSUME PacketsFit ==
  /\ Fits(StartLayout, StartGame)
  /\ Fits(StackLayout, sendResourcePacksStack)
  /\ Fits(InfoLayout, sendResourcePacksInfo)
  /\ Fits(<<"varint", "u16", "u16", "bool", "u8", "float">>, NetworkSettings)
  /\ Fits(<<"varint", "none", "none", "u16">>, sendVoxelShapes)
  /\ Fits(<<"varint">> \o Times(11, <<"none">>) \o <<"bool">>, sendCraftingData)
  /\ Fits(<<"varint", "none", "none">>, sendEmptyTrimData)
  /\ Fits(<<"varint", "none", "none">>, sendCreativeContent)
  /\ Fits(<<"varint", "none", "none">>, sendEmptyBiomeDefinitionList)
  /\ Fits(<<"varint", "none">>, sendEmptyItemRegistry)
  /\ Fits(<<"varint", "compound">>, sendAvailableActorIdentifiers)
  /\ Fits(AbilitiesLayout, sendUpdateAbilities)
  /\ Fits(<<"varint", "varint64", "none", "none", "none", "varint64">>, sendSetEntityData)
  /\ Fits(CreativeLayout(Len(kCreativeItems)), sendCreativeContentWithItems)
  /\ \A window \in {InventoryWindow, UI, OffHand, Armor} :
       Fits(ContentLayout(slotCountFor(window)), sendInventoryContent(window))

\* So is every packet that carries its arguments, which it says as they are.
Edge32 == {-2147483647, -64, -1, 0, 1, 63, 64, 2147483647}
ASSUME ArgumentsFit ==
  \A v \in Edge32 :
    /\ v >= 0 => Values(<<"varint", "beint">>, sendPlayStatus(v)) = <<2, v>>
    /\ v \in -1000000000..1000000000 =>
         /\ Values(<<"varint", "zigzag">>, sendSetTime(v)) = <<10, v>>
         /\ Values(<<"varint", "zigzag">>, sendSetPlayerGameType(v)) = <<62, v>>
         /\ Values(<<"varint", "zigzag">>, sendChunkRadiusUpdated(v)) = <<70, v>>
         /\ Values(<<"varint">> \o BlockPos \o <<"varint", "u32">>,
                   sendNetworkChunkPublisherUpdate(v, 4, v, 64)) = <<121, v, 4, v, 64, 0>>
         /\ Values(<<"varint", "zigzag">> \o BlockPos \o <<"zigzag">> \o BlockPos,
                   sendSetSpawnPosition(1, v, 4, 0, 0)) = <<43, 1, v, 4, 0, 0, v, 4, 0>>
         /\ Values(<<"varint", "zigzag">> \o Vec3 \o <<"zigzag">>,
                   sendLevelEvent(3003, F0, F1, F0, v)) = <<25, 3003, F0, F1, F0, v>>
         /\ Values(<<"varint", "zigzag", "zigzag64", "varint64">>,
                   sendUpdatePlayerGameType(v, Word(1), Word(7))) = <<151, v, Word(1), Word(7)>>
         /\ Values(<<"varint", "zigzag", "bool", "string", "string">>,
                   sendDisconnect(v, <<9>>, FALSE)) = <<5, v, 0, <<9>>, <<9>>>>
         /\ Fits(<<"varint", "zigzag", "bool">>, sendDisconnect(v, <<9>>, TRUE))
    /\ Values(<<"varint", "varint", "string", "bool", "varint", "bool">>,
              sendGameRulesChanged(<<8>>, FALSE, TRUE)) = <<72, 1, <<8>>, 0, 1, 1>>
    /\ Fits(<<"varint", "bool", "u8", "u8", "string", "varint", "string", "string", "string", "bool">>,
            sendJoinMessage(<<80, 81>>))

\* A client that is told an identifier of its player in one packet finds it in all
\* others; the version of the game, its kind and the way blocks are named agree.
ASSUME PacketsAgree ==
  LET start == Values(StartLayout, StartGame)
      strings == {i \in DOMAIN StartLayout : StartLayout[i] = "string"}
  IN  /\ {start[2], start[3]} = {Word(1)}
      /\ Values(<<"varint", "varint64">>, sendUpdateAttributesSpeed(F0_1))[2] = start[3]
      /\ Values(AbilitiesLayout, sendUpdateAbilities)[2] = start[2]
      /\ Values(<<"varint", "varint64">>, sendSetEntityData)[2] = start[3]
      /\ SetLocalPlayerAsInitialised(writeVarInt64(start[3]), 0)
      \* Twice, and once in the resource pack stack.
      /\ Cardinality({i \in strings : start[i] = GameVersion}) = 2
      /\ Values(StackLayout, sendResourcePacksStack)[4] = GameVersion
      \* Where the player stands and where the world has its spawn.
      /\ SubSeq(start, 5, 7) = <<F0, F4, F0>>
      /\ \E i \in DOMAIN start : SubSeq(StartLayout, i, i + 2) = BlockPos /\ SubSeq(start, i, i + 2) = <<0, 4, 0>>
      \* The game of the player is the game of the world.
      /\ start[4] = start[15]
      \* Blocks are named by hashes: the third of the four before the names at the end.
      /\ start[Len(start) - 6] = 1

\* Attributes lie within their bounds, and so do their defaults.
AttributesLie(n, packet) ==
  LET v == Values(AttributesLayout(n), packet)
  IN  /\ Fits(AttributesLayout(n), packet)
      /\ v[3] = n
      /\ \A k \in 0..(n - 1) :
           LET a == SubSeq(v, 4 + 8 * k, 9 + 8 * k)
           IN  a[1] <= a[3] /\ a[3] <= a[2] /\ a[4] <= a[6] /\ a[6] <= a[5]
      /\ Cardinality({v[10 + 8 * k] : k \in 0..(n - 1)}) = n

\* With the values that phase 2 sends.
ASSUME AttributesInBounds ==
  /\ AttributesLie(1, sendUpdateAttributesSpeed(F0_1))
  /\ AttributesLie(2, sendUpdateAttributesHealth(F20, F20, F0))
  /\ AttributesLie(2, sendUpdateAttributesExperience(F0, F0))
  /\ AttributesLie(3, sendUpdateAttributesFood(F20, F0, F0))

\* Every creative item has a number of its own, belongs to the one group and is a
\* single one of an item that no other entry shows.
ASSUME CreativeItemsDistinct ==
  LET v == Values(CreativeLayout(Len(kCreativeItems)), sendCreativeContentWithItems)
      Entry(k) == SubSeq(v, 11 + 10 * k, 20 + 10 * k)
      all == 0..(Len(kCreativeItems) - 1)
  IN  /\ v[2] = 1 /\ v[10] = Len(kCreativeItems)
      /\ \A k \in all : Entry(k)[1] = k /\ Entry(k)[3] = 1 /\ Entry(k)[10] = 0
                        /\ Entry(k)[6] = Len(Extra)
      /\ Cardinality({Entry(k)[2] : k \in all}) = Len(kCreativeItems)

\* Names and tags are places of the list of strings, names are all different, and
\* the biome that the chunks are said to be of is named "plains", string 102.
kPlainsBiomeArrayIndex == 49
ASSUME BiomesNamed ==
  /\ Len(kBiomeDefinitions) = 87
  /\ \A i \in DOMAIN kBiomeDefinitions : Range(kBiomeDefinitions[i]) \subseteq 0..(Len(kBiomeStringList) - 1)
  /\ Cardinality({kBiomeDefinitions[i][1] : i \in DOMAIN kBiomeDefinitions}) = 87
  /\ kBiomeDefinitions[kPlainsBiomeArrayIndex + 1][1] = 102

\* The list of biomes is read to its last byte, and so is a biome with no tags.
ASSUME BiomesFit ==
  /\ Fits(<<"varint", "varint">>
            \o FlattenSeq([i \in DOMAIN kBiomeDefinitions |-> BiomeLayout(Len(kBiomeDefinitions[i]) - 1)])
            \o <<"varint">> \o Times(Len(kBiomeStringList), <<"string">>),
          sendBiomeDefinitionList)
  /\ Fits(<<"i16", "u16">> \o Times(5, <<"float">>) \o <<"u32", "bool", "none", "bool">>, writeBiome(<<5>>))

\* Each list of the jigsaw data is followed by the next, the last by the end of the
\* compound.
ASSUME JigsawFits ==
  LET list == <<"u8", "string", "u8", "none">>
  IN  Fits(<<"varint", "u8", "none">> \o Times(4, list) \o <<"u8">>, sendJigsawStructureData)

\* The log of the network settings says what was sent.
ASSUME LogReadsBack ==
  printNetworkSettingsLayers(NetworkSettings, NetworkSettingsBatch) =
    [threshold |-> 1, algorithm |-> 0, throttled |-> FALSE, limit |-> 0, scalar |-> F0,
     marker |-> 254, length |-> Len(NetworkSettings)]

-----------------------------------------------------------------------------
(* Requests *)

\* What is granted is never more than what is sent; a negative radius is granted
\* as it is asked for.
ASSUME RadiusBounded ==
  \A v \in {-5, -1, 0, 1, 3, 4, 5, 32, 1000000} :
    \A rest \in {<<>>, <<8>>} :
      Values(<<"varint", "zigzag">>, RequestChunkRadius(writeZigZag32(v) \o rest, 0))
        = <<70, IF v < 4 THEN v ELSE 4>>
ASSUME RequestCutShort == RequestChunkRadius(<<>>, 0) = None /\ RequestChunkRadius(<<128>>, 0) = None

\* A time comes back twice; a request that is too short is not answered.
ASSUME TickSyncEchoes ==
  LET request == writeInt64(Word(99)) \o writeInt64(Word(5))
  IN  /\ Values(<<"varint", "u64", "u64">>, handleTickSync(request, 0)) = <<23, Word(99), Word(99)>>
      /\ \A n \in 0..15 : handleTickSync(SubSeq(request, 1, n), 0) = None

ASSUME InteractRead ==
  /\ Interact(<<4>> \o writeVarInt64(Word(1)) \o <<0>>, 0)
  /\ Interact(<<6>> \o writeVarInt64(Word(300)) \o <<1>> \o Floats(<<F1, F4, F0>>), 0)
  /\ ~Interact(<<6>> \o writeVarInt64(Word(300)) \o <<1>> \o Floats(<<F1, F4>>), 0)
  /\ ~Interact(<<4>>, 0) /\ ~Interact(<<4, 1>>, 0) /\ ~Interact(<<>>, 0)

-----------------------------------------------------------------------------
(* PlayerAuthInput *)

Input ==
  Floats(<<F1, F4, F5, F20, F1, F0, F0, F4>>) \o writeVarInt(3) \o ZigZags(<<2, 40, 70>>)
    \o writeVarInt(1) \o writeVarInt(2) \o writeZigZag32(0) \o Floats(<<F0, F0>>)
    \o writeVarInt64(Word(777)) \o Floats(<<F1, F0_1, F1>>)

Old == [at   |-> [pitch |-> 0, yaw |-> 0, posX |-> 0, posY |-> 0, posZ |-> 0, headYaw |-> 0],
        more |-> [inputFlagMask |-> {}, inputMode |-> 0, playMode |-> 0,
                  lastAuthInputTick |-> Word(0), deltaX |-> 0, deltaY |-> 0, deltaZ |-> 0]]
New == handlePlayerAuthInput(Old, Input, 0)
Order == <<"inputFlagMask", "inputMode", "playMode", "lastAuthInputTick", "deltaX", "deltaY", "deltaZ">>

\* Wherever the extended fields end, the position is the packet's and the first
\* fields, up to one of them, are the packet's too; without a whole front block
\* nothing is.
ASSUME InputCutShort ==
  /\ New.at = [pitch |-> F1, yaw |-> F4, posX |-> F5, posY |-> F20, posZ |-> F1, headYaw |-> F4]
  /\ New.more = [inputFlagMask |-> {2, 40}, inputMode |-> 1, playMode |-> 2,
                 lastAuthInputTick |-> Word(777), deltaX |-> F1, deltaY |-> F0_1, deltaZ |-> F1]
  /\ \A n \in 0..Len(Input) :
       LET got == handlePlayerAuthInput(Old, SubSeq(Input, 1, n), 0)
       IN  IF n < 32 THEN got = Old
           ELSE /\ got.at = New.at
                /\ \E k \in 0..Len(Order) :
                     \A i \in DOMAIN Order : got.more[Order[i]] = (IF i <= k THEN New.more ELSE Old.more)[Order[i]]

\* More flags than a mask has bits: the rest is not read.
ASSUME TooManyFlags ==
  LET front == SubSeq(Input, 1, 32)
  IN  /\ handlePlayerAuthInput(Old, front \o writeVarInt(65) \o ZigZags([i \in 1..65 |-> i]), 0)
           = [New EXCEPT !.more = Old.more]
      /\ handlePlayerAuthInput(Old, front \o writeVarInt(64) \o ZigZags([i \in 1..64 |-> i - 2]), 0).more.inputFlagMask
           = 0..62
=============================================================================
