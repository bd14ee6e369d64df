---------------------------- MODULE ContentPackets ----------------------------
(***************************************************************************)
(* The packets that describe the world to a client (LBBNet/Packets): what  *)
(* each send function writes, in its order and with its types, and what    *)
(* the handlers of small requests read.                                    *)
(*                                                                         *)
(* A packet is the concatenation of its writes.  A name or another fixed   *)
(* text that nothing compares is one byte of its own; a float is its 32    *)
(* bits.                                                                   *)
(***************************************************************************)
EXTENDS Codecs64, SequencesExt

\* Floats, by their bits.
F0      == 0
F0_05   == 1028443341
F0_1    == 1036831949
F1      == 1065353216
F4      == 1082130432
F5      == 1084227584
F20     == 1101004800
FltMax  == 2139095039
\* (float)INT32_MAX is 2^31.
F2to31  == 1325400064

Word(n) == [k \in 0..63 |-> IF k < 30 THEN (n \div (2 ^ k)) % 2 ELSE 0]

None == <<>>
Flag(b, times) == [i \in 1..times |-> IF b THEN 1 ELSE 0]
Floats(raws) == FlattenSeq([i \in DOMAIN raws |-> writeFloat(raws[i])])
ZigZags(values) == FlattenSeq([i \in DOMAIN values |-> writeZigZag32(values[i])])

\* So many empty arrays with a varint count.
NoEntries(arrays) == FlattenSeq([i \in 1..arrays |-> writeVarInt(0)])

\* "1.26.51", and other texts.
GameVersion   == <<49, 46, 50, 54, 46, 53, 49>>
LevelId       == <<1>>
LevelName     == <<2>>
CorrelationId == <<3>>

\* An empty compound: its type, the length of its name, its end.
writeEmptyNbtCompound == <<10>> \o writeVarInt(0) \o <<0>>

-----------------------------------------------------------------------------
(* StartGame *)

\* enum class GameType, GeneratorType, BroadcastSetting, PlayerPermissionLevel.
Survival  == 1
Overworld == 1
Public    == 4
Member    == 1
Normal    == 2

\* Who and where the player is: the two identifiers, the game type, position and
\* rotation.
PlayerStart ==
  writeVarInt(11) \o writeZigZag64(Word(1)) \o writeVarInt64(Word(1))
    \o writeZigZag32(Survival) \o Floats(<<F0, F4, F0>>) \o Floats(<<F0, F0>>)

LevelSettings ==
  writeUInt64(Word(0)) \o writeShort(0) \o writeString(None) \o writeZigZag32(0)
    \o ZigZags(<<Overworld, Survival>>) \o writeBool(FALSE) \o writeZigZag32(Normal)
    \o ZigZags(<<0, 4, 0>>)
    \o writeBool(TRUE) \o writeZigZag32(0) \o Flag(FALSE, 2) \o writeZigZag32(0)
    \o writeVarInt(0) \o writeBool(TRUE) \o writeString(None) \o Floats(<<F0, F0>>)
    \o writeBool(FALSE) \o Flag(TRUE, 2) \o writeVarInt(Public) \o writeVarInt(Public)
    \o writeBool(TRUE) \o writeBool(FALSE) \o writeVarInt(0)
    \o writeInt(0) \o Flag(FALSE, 3) \o writeZigZag32(Member) \o writeInt(0)
    \o Flag(FALSE, 10) \o writeString(GameVersion) \o writeInt(0) \o writeInt(0)
    \o writeBool(FALSE) \o writeString(None) \o writeString(None) \o writeBool(FALSE)
    \o <<0>> \o writeBool(FALSE) \o writeZigZag32(0) \o writeBool(FALSE)

\* From the level's identifier to the names of server, scenario, world and owner.
Level ==
  writeString(LevelId) \o writeString(LevelName) \o writeString(None) \o writeBool(FALSE)
    \o writeZigZag32(0) \o writeBool(TRUE) \o writeUInt64(Word(0)) \o writeZigZag32(0)
    \o writeVarInt(0) \o writeString(CorrelationId) \o writeBool(TRUE)
    \o writeString(GameVersion) \o writeEmptyNbtCompound
    \o writeUInt64(Word(0)) \o writeUInt64(Word(0)) \o writeUInt64(Word(0))
    \o writeBool(FALSE) \o writeBool(TRUE) \o Flag(FALSE, 2)
    \o FlattenSeq([i \in 1..4 |-> writeString(None)])

StartGame == PlayerStart \o LevelSettings \o Level

\* The table of items is data made elsewhere, a count and its entries: body.
sendItemRegistry(body) == writeVarInt(162) \o body
sendEmptyItemRegistry  == sendItemRegistry(writeVarInt(0))

\* What it adds to the pending batch before the flush.
sendStartGame(body) == <<StartGame, sendItemRegistry(body)>>

\* Each list is a type, a name, the type of its elements and their number.
writeEmptyCompoundList(name) == <<9>> \o writeString(name) \o <<10>> \o writeVarInt(0)

sendJigsawStructureData ==
  writeVarInt(313) \o <<10>> \o writeVarInt(0)
    \o FlattenSeq([i \in 1..4 |-> writeEmptyCompoundList(<<i>>)]) \o <<0>>

sendVoxelShapes == writeVarInt(337) \o NoEntries(2) \o writeUShort(0)

-----------------------------------------------------------------------------
(* The packets before the game starts *)

sendResourcePacksInfo ==
  writeVarInt(6) \o Flag(FALSE, 4) \o writeUInt64(Word(0)) \o writeUInt64(Word(0))
    \o writeString(None) \o writeVarInt(0)

sendResourcePacksStack ==
  writeVarInt(7) \o writeBool(FALSE) \o writeVarInt(0) \o writeString(GameVersion)
    \o writeUInt(0) \o Flag(FALSE, 2)

\* Threshold, algorithm (0 is zlib), and no throttling.
NetworkSettings ==
  writeVarInt(143) \o writeUShort(1) \o writeUShort(0) \o writeBool(FALSE) \o <<0>>
    \o writeFloat(F0)

\* The only batch that is built outside of GamePacketSender.
NetworkSettingsBatch == <<254>> \o writeVarInt(Len(NetworkSettings)) \o NetworkSettings

\* The bytes of a header, as the log looks for them.
HeaderOffset(packet) ==
  CHOOSE n \in 1..Len(packet) :
    /\ \A i \in 1..(n - 1) : packet[i] >= 128
    /\ n = Len(packet) \/ packet[n] < 128

\* What the log says of the packet and of the batch.
printNetworkSettingsLayers(packet, payload) ==
  LET at == HeaderOffset(packet)
  IN  [threshold |-> readUShort(packet, at).value, algorithm |-> readUShort(packet, at + 2).value,
       throttled |-> packet[at + 5] # 0, limit |-> packet[at + 6],
       scalar |-> readFloat(packet, at + 6).value,
       marker |-> payload[1], length |-> readVarInt(payload, 1).value]

-----------------------------------------------------------------------------
(* The packets of the world and of the player *)

sendPlayStatus(status) == writeVarInt(2) \o writeIntBE(status)

sendChunkRadiusUpdated(chunkRadius) == writeVarInt(70) \o writeZigZag32(chunkRadius)

sendNetworkChunkPublisherUpdate(x, y, z, radiusBlocks) ==
  writeVarInt(121) \o ZigZags(<<x, y, z>>) \o writeVarInt(radiusBlocks) \o writeUInt(0)

sendSetSpawnPosition(type, x, y, z, dimension) ==
  writeVarInt(43) \o writeZigZag32(type) \o ZigZags(<<x, y, z>>) \o writeZigZag32(dimension)
    \o ZigZags(<<x, y, z>>)

sendAvailableActorIdentifiers == writeVarInt(119) \o writeEmptyNbtCompound

sendCraftingData  == writeVarInt(52) \o NoEntries(11) \o writeBool(FALSE)
sendEmptyTrimData == writeVarInt(302) \o NoEntries(2)

sendSetTime(time)               == writeVarInt(10) \o writeZigZag32(time)
sendSetPlayerGameType(gamemode) == writeVarInt(62) \o writeZigZag32(gamemode)

sendUpdatePlayerGameType(gamemode, playerUniqueId, tick) ==
  writeVarInt(151) \o writeZigZag32(gamemode) \o writeZigZag64(playerUniqueId)
    \o writeVarInt64(tick)

sendGameRulesChanged(name, editable, value) ==
  writeVarInt(72) \o writeVarInt(1) \o writeString(name) \o writeBool(editable)
    \o writeVarInt(1) \o writeBool(value)

sendLevelEvent(event, x, y, z, data) ==
  writeVarInt(25) \o writeZigZag32(event) \o Floats(<<x, y, z>>) \o writeZigZag32(data)

sendSetEntityData ==
  writeVarInt(39) \o writeVarInt64(Word(1)) \o NoEntries(3) \o writeVarInt64(Word(0))

\* 0xFFFFF: twenty abilities, allowed and enabled.
kAbilities == 1048575

sendUpdateAbilities ==
  writeVarInt(187) \o writeInt64(Word(1)) \o <<1, 0>> \o <<1>> \o writeUShort(1)
    \o writeUInt(kAbilities) \o writeUInt(kAbilities) \o Floats(<<F0_05, F0_05, F0_1>>)

sendJoinMessage(playerName) ==
  writeVarInt(9) \o writeBool(TRUE) \o <<2, 2>> \o writeString(<<4>>) \o writeVarInt(1)
    \o writeString(playerName) \o writeString(None) \o writeString(None) \o writeBool(FALSE)

\* The two texts only if the screen is shown.
sendDisconnect(reason, message, hideScreen) ==
  writeVarInt(5) \o writeZigZag32(reason) \o writeBool(hideScreen)
    \o (IF hideScreen THEN None ELSE writeString(message) \o writeString(message))

-----------------------------------------------------------------------------
(* Attributes *)

writeAttribute(name, min, max, current, defaultMin, defaultMax, defaultValue) ==
  Floats(<<min, max, current, defaultMin, defaultMax, defaultValue>>)
    \o writeString(name) \o writeVarInt(0)

sendAttributes(attributes) ==
  writeVarInt(29) \o writeVarInt64(Word(1)) \o writeVarInt(Len(attributes))
    \o FlattenSeq(attributes) \o writeVarInt64(Word(0))

sendUpdateAttributesSpeed(speed) ==
  sendAttributes(<<writeAttribute(<<1>>, F0, FltMax, speed, F0, FltMax, F0_1)>>)

sendUpdateAttributesHealth(health, maxHealth, absorption) ==
  sendAttributes(<<writeAttribute(<<2>>, F0, maxHealth, health, F0, F20, F20),
                   writeAttribute(<<3>>, F0, FltMax, absorption, F0, FltMax, F0)>>)

sendUpdateAttributesExperience(level, progress) ==
  sendAttributes(<<writeAttribute(<<4>>, F0, F2to31, level, F0, F2to31, F0),
                   writeAttribute(<<5>>, F0, F1, progress, F0, F1, F0)>>)

sendUpdateAttributesFood(food, saturation, exhaustion) ==
  sendAttributes(<<writeAttribute(<<6>>, F0, F20, food, F0, F20, F20),
                   writeAttribute(<<7>>, F0, F20, saturation, F0, F20, F20),
                   writeAttribute(<<8>>, F0, F5, exhaustion, F0, F5, F0)>>)

-----------------------------------------------------------------------------
(* Items *)

\* namespace InventoryWindowId.
InventoryWindow == 0
OffHand         == 119
Armor           == 120
UI              == 124

appendEmptyItem ==
  writeShort(0) \o writeUShort(0) \o writeVarInt(0) \o writeBool(FALSE) \o NoEntries(2)

slotCountFor(windowId) ==
  CASE windowId = UI      -> 54
    [] windowId = OffHand -> 1
    [] windowId = Armor   -> 4
    [] OTHER              -> 36

sendInventoryContent(windowId) ==
  writeVarInt(49) \o writeVarInt(windowId) \o writeVarInt(slotCountFor(windowId))
    \o FlattenSeq([i \in 1..slotCountFor(windowId) |-> appendEmptyItem])
    \o <<0>> \o writeBool(FALSE) \o appendEmptyItem

\* The extra data of an item: no NBT, nothing to place it on, nothing to break.
Extra == writeShort(0) \o writeUInt(0) \o writeUInt(0)

writeItemStack(itemId, count) ==
  writeZigZag32(itemId) \o writeUShort(count) \o writeVarInt(0) \o writeZigZag32(0)
    \o (IF itemId = 0 THEN writeVarInt(0) ELSE writeVarInt(Len(Extra)) \o Extra)

kCreativeItems ==
  <<3, 1, 4, 5, 17, 20, 12, 13, 58, 61, 50, 65, 139, 98, 45, 49, 7, 2, 89, 85, 796, 813, 342,
    328, 347, 331, 332, 453, 392, 394, 395, 336, 337, 335, 552, 405, 333, 443, 285, 290, 303>>

sendCreativeContent == writeVarInt(145) \o NoEntries(2)

sendCreativeContentWithItems ==
  writeVarInt(145) \o writeVarInt(1) \o <<1>> \o writeString(None) \o writeItemStack(0, 0)
    \o writeVarInt(Len(kCreativeItems))
    \o FlattenSeq([i \in DOMAIN kCreativeItems |->
          writeVarInt(i - 1) \o writeItemStack(kCreativeItems[i], 1) \o writeVarInt(0)])

-----------------------------------------------------------------------------
(* Biomes *)

\* The strings are all different: each is the number of its place.
kBiomeStringList == [i \in 1..146 |-> <<i - 1>>]

\* Of a biome, the place of its name and the places of its tags; the climate and
\* the colour are not referred to.
kBiomeDefinitions == <<
    <<0,1,0,2,3,4,5>>, <<6,1,7,8,9,2,3,10,11>>, <<12,2,12,3>>, <<13,1,14,7,8,2,3,10,11,15,16>>,
    <<17,18,19,17,20,5>>, <<21,1,22,7,2,23,3,11>>, <<24,25,2,12,3,26,5>>, <<27,28,2,12,3,5>>,
    <<29,1,7,9,2,30,3,10,31,11>>, <<32,1,2,30,3,33,34,35,5>>, <<36,1,7,2,30,10,37,11>>,
    <<38,2,12,3,26,5,39>>, <<22,1,22,2,3,11>>, <<40,14,2,12,3,11>>,
    <<41,18,42,20,43,44,45,46,47,5>>, <<48,1,8,2,3,7,10,11>>, <<7,1,7,2,3,49>>,
    <<50,51,52,2,30,3,11,15,16>>, <<53,1,54,55,2,3,56,5>>, <<57,58,3,59>>,
    <<60,61,14,2,3,11,15,62,16>>, <<63,18,63,44,20,5>>, <<64,1,65,7,8,2,30,37>>,
    <<66,1,0,2,3,33,67,68,4,5>>, <<69,69,3,2,70,5,39>>, <<71,1,54,22,2,23,3,11>>,
    <<72,1,14,7,2,30,10,37,11>>, <<73,61,2,3,68>>, <<74,1,8,2,3,7,49>>, <<75,1,0,2,3,33,67,4,5>>,
    <<76,1,7,2,77,3,78>>, <<79,25,2,12,3,5>>, <<80,80,11,15>>, <<81,1,22,7,2,30,3,11>>,
    <<61,61,2,3,26>>, <<82,83,2,3,51,82,11,15,62,16>>, <<84,1,0,2,30,3,33,68,4,5>>,
    <<85,3,86,87,88,85>>, <<89,51,2,12,3,90,11,15,62,16>>, <<91,2,3,91>>,
    <<52,51,92,52,3,11,15,62,16>>, <<93,1,22,2,30,3,11>>, <<94,95,94,3,11,15>>,
    <<96,25,28,2,12,3,5>>, <<97,95,97,3,2,98>>, <<99,1,0,2,30,3,33,4,5>>,
    <<100,25,51,2,12,3,11,15,90>>, <<101,83,14,2,3,101,11,15,62,16>>, <<55,1,31,55,2,3,67,56,5>>,
    <<102,1,2,3,102,49>>, <<103,1,2,30,3,102,49>>, <<10,1,7,2,3,10,31,11>>,
    <<104,14,25,2,12,3,11>>, <<105,106,2,30,37,107,5>>, <<108,95,3,108,2>>, <<109,1,55,2,30,37,5>>,
    <<110,1,14,7,2,3,10,31,11>>, <<111,1,65,7,8,2,3,49>>, <<112,1,65,7,2,3,49>>,
    <<113,18,19,113,114,115,5>>, <<116,117,51,12,3,11,90>>, <<118,58,3,119,59>>, <<120,83,2,3,11>>,
    <<121,1,122,8,55,2,3,56,5>>, <<123,1,7,2,30,78,37>>, <<124,106,8,2,3,107,5>>,
    <<125,1,8,55,2,3,56,5>>, <<126,83,2,3,51,15,62,16,126,11>>, <<127,1,0,2,30,3,4,5>>,
    <<128,83,2,3,51,128,11,15,62,16>>, <<129,1,2,3,33,34,35,5>>, <<130,1,2,30,3,34,35,5>>,
    <<131,1,122,55,2,3,56,5>>, <<132,83,2,3,132,49>>, <<106,106,2,3,107,5,39>>,
    <<133,83,2,3,133,49>>, <<134,1,54,55,2,30,37,56,5>>, <<135,51,92,23,3,11,15,62,16>>,
    <<136,1,2,3,137,70>>, <<138,18,138,139,44,5>>, <<140,1,140,2,30,3,49>>,
    <<141,51,3,85,11,15,88,62,16>>, <<142,1,7,8,9,2,30,10,37,11>>, <<143,1,65,7,2,30,49,37,31>>,
    <<144,1,7,9,2,3,67,10,31,11>>, <<34,1,2,3,34,35,5>>, <<145,1,2,30,137,37,70>>
  >>

\* No biome has an identifier; its climate and the colour of its water are zeros.
writeBiome(def) ==
  writeShort(def[1]) \o writeUShort(65535) \o Floats(<<F0, F0, F0, F0, F0>>) \o writeInt(0)
    \o writeBool(TRUE) \o writeBool(Len(def) > 1)
    \o (IF Len(def) > 1
         THEN writeVarInt(Len(def) - 1)
              \o FlattenSeq([i \in 1..(Len(def) - 1) |-> writeUShort(def[i + 1])])
         ELSE None)
    \o writeBool(FALSE)

sendBiomeDefinitionList ==
  writeVarInt(122) \o writeVarInt(Len(kBiomeDefinitions))
    \o FlattenSeq([i \in DOMAIN kBiomeDefinitions |-> writeBiome(kBiomeDefinitions[i])])
    \o writeVarInt(Len(kBiomeStringList))
    \o FlattenSeq([i \in DOMAIN kBiomeStringList |-> writeString(kBiomeStringList[i])])

sendEmptyBiomeDefinitionList == writeVarInt(122) \o NoEntries(2)

-----------------------------------------------------------------------------
(* What a client asks and tells *)

kSentChunkRadius == 4

\* The radius granted; nothing if the packet ends before the radius asked for.
RequestChunkRadius(data, offset) ==
  LET requested == readZigZag32(data, offset)
  IN  IF requested.offset = -1 THEN None
      ELSE sendChunkRadiusUpdated(IF requested.value < kSentChunkRadius
                                  THEN requested.value ELSE kSentChunkRadius)

\* The time asked with, twice; the second time of the request is only read.
handleTickSync(data, offset) ==
  LET requestTime  == readInt64(data, offset)
      responseTime == readInt64(data, requestTime.offset)
  IN  IF requestTime.offset = -1 \/ responseTime.offset = -1 THEN None
      ELSE writeVarInt(23) \o writeInt64(requestTime.value) \o writeInt64(requestTime.value)

\* Whether phase 2 is released: any identifier will do, if there is one.
SetLocalPlayerAsInitialised(data, offset) == readVarInt64(data, offset).offset # -1

\* Interact is read and logged: whether the fields it says it has are there.
Interact(data, offset) ==
  LET target == readVarInt64(data, offset + 1)
      placed == readBool(data, target.offset)
  IN  /\ need(data, offset, 1)
      /\ target.offset # -1
      /\ placed # OutOfRange
      /\ placed.value = 1 => need(data, placed.offset, 12)

-----------------------------------------------------------------------------
(* PlayerAuthInput: eight floats, and fields that may be missing *)

\* The offset behind count flags, -1 if the packet ends before them.
BehindFlags(data, offset, count) ==
  LET next == [o \in -1..Len(data) |-> IF o = -1 THEN -1 ELSE readZigZag32(data, o).offset]
      at[i \in 0..count] == IF i = 0 THEN offset ELSE next[at[i - 1]]
  IN  at[count]

\* The flags of the input that the 64 bits of the mask have a place for.
FlagsOf(data, offset, count) ==
  {readZigZag32(data, BehindFlags(data, offset, i)).value : i \in 0..(count - 1)} \intersect 0..63

\* The value behind another one, which is missing if that one is.
Behind(before, type, data) ==
  CASE before.offset = -1 -> OutOfRange
    [] before.offset # -1 /\ type = "varint"   -> readVarInt(data, before.offset)
    [] before.offset # -1 /\ type = "zigzag"   -> readZigZag32(data, before.offset)
    [] before.offset # -1 /\ type = "varint64" -> readVarInt64(data, before.offset)
    [] before.offset # -1 /\ type = "float"    -> readFloat(data, before.offset)

\* Of what a packet that ends early lacks, the old values are kept.
Assigned(old, reads) == [f \in DOMAIN old |-> IF reads[f].offset = -1 THEN old[f] ELSE reads[f].value]

\* The fields of the state that an input may renew, of which a packet that ends
\* early renews the first ones; a count of flags above 64 renews none.
ExtendedFields(old, data, offset) ==
  LET count   == readVarInt(data, offset)
      behind  == BehindFlags(data, count.offset, count.value)
      mode    == readVarInt(data, behind)
      play    == Behind(mode, "varint", data)
      model   == Behind(play, "zigzag", data)
      yaw     == Behind(Behind(model, "float", data), "float", data)
      tick    == Behind(yaw, "varint64", data)
      x       == Behind(tick, "float", data)
      y       == Behind(x, "float", data)
      z       == Behind(y, "float", data)
  IN  IF count.offset = -1 \/ count.value > 64 \/ behind = -1 THEN old
      ELSE Assigned(old, [inputFlagMask |-> [value  |-> FlagsOf(data, count.offset, count.value),
                                             offset |-> behind],
                          inputMode |-> mode, playMode |-> play, lastAuthInputTick |-> tick,
                          deltaX |-> x, deltaY |-> y, deltaZ |-> z])

\* pitch, yaw, x, y, z, two of the movement, head: none if one is missing, for the
\* exception leaves the handler.
FrontBlock(data, offset) ==
  IF need(data, offset, 32)
  THEN [i \in 1..8 |-> readFloat(data, offset + 4 * (i - 1)).value] ELSE None

handlePlayerAuthInput(old, data, offset) ==
  LET front == FrontBlock(data, offset)
  IN  IF front = None THEN old
      ELSE [at   |-> [pitch |-> front[1], yaw |-> front[2], posX |-> front[3], posY |-> front[4],
                      posZ |-> front[5], headYaw |-> front[8]],
            more |-> ExtendedFields(old.more, data, offset + 32)]
=============================================================================
