------------------------------ MODULE LoginData ------------------------------
(***************************************************************************)
(* What a Login packet says of a player (LoginPacket.cpp, JsonLite.cpp)    *)
(* and how the player list passes it on (PlayerListPacket.cpp).            *)
(*                                                                         *)
(* JSON is a sequence of tokens: quoted strings [s |-> value], numbers     *)
(* [n |-> number], words [w |-> "true"] and marks [p |-> "{"].  The value  *)
(* of a string is [name |-> text], base64 [b64 |-> bytes] or a JWT         *)
(* [dots, payload, signedBy].  The code searches the text; inside of a     *)
(* string there is nothing for it to find: no quote, mark or number.       *)
(***************************************************************************)
EXTENDS Codecs64, SequencesExt

Quoted(value) == [s |-> value]
Named(text)   == Quoted([name |-> text])
Mark(mark)    == [p |-> mark]

Empty == [name |-> ""]

-----------------------------------------------------------------------------
(* JsonLite *)

\* The first of some places, or 0.
FirstOf(places) == IF places = {} THEN 0 ELSE Min(places)

IsQuoted(t) == DOMAIN t = {"s"}

PlaceOf(json, token, i) == FirstOf({k \in i..Len(json) : json[k] = token})

\* Where the value of a key begins: behind the colon behind the first string that
\* is the key, be it one or not.
ValueAt(json, key) ==
  LET keyPos == PlaceOf(json, Named(key), 1)
      colon  == IF keyPos = 0 THEN 0 ELSE PlaceOf(json, Mark(":"), keyPos + 1)
  IN  IF colon = 0 THEN 0 ELSE colon + 1

\* A value that is no string is passed over, for the next string there is.
jsonExtractString(json, key) ==
  LET at    == ValueAt(json, key)
      quote == IF at = 0 THEN 0 ELSE FirstOf({k \in at..Len(json) : IsQuoted(json[k])})
  IN  IF quote = 0 THEN Empty ELSE json[quote].s

jsonExtractInt(json, key) ==
  LET at == ValueAt(json, key)
  IN  IF at \in DOMAIN json /\ DOMAIN json[at] = {"n"} THEN json[at].n ELSE 0

jsonExtractBool(json, key, defaultValue) ==
  LET at == ValueAt(json, key)
  IN  IF at \in DOMAIN json /\ json[at] \in {[w |-> "true"], [w |-> "false"]}
      THEN json[at].w = "true" ELSE defaultValue

-----------------------------------------------------------------------------
(* Tokens and chains *)

decodeJwtPayload(value) ==
  IF DOMAIN value = {"dots", "payload", "signedBy"} /\ value.dots >= 2 THEN value.payload ELSE <<>>

\* The strings of the first array behind "chain".
extractChainTokens(json) ==
  LET key   == PlaceOf(json, Named("chain"), 1)
      start == IF key = 0 THEN 0 ELSE PlaceOf(json, Mark("["), key)
      end   == IF start = 0 THEN 0 ELSE PlaceOf(json, Mark("]"), start)
      inner == SelectSeq(SubSeq(json, start + 1, end), IsQuoted)
  IN  IF end = 0 THEN <<>> ELSE [i \in DOMAIN inner |-> inner[i].s]

kMojangRootPublicKeyBase64 == [name |-> "mojang"]

\* A signature is right (external) for the key it was made with.
verifyES384Signature(jwt, key) == jwt.signedBy = key

KeyOf(jwt) == jsonExtractString(decodeJwtPayload(jwt), "identityPublicKey")

verifyLoginChain(tokens) ==
  LET verifyingKey(i) == KeyOf(tokens[IF i = 1 THEN 1 ELSE i - 1])
  IN  /\ tokens # <<>>
      /\ \A i \in DOMAIN tokens : /\ KeyOf(tokens[i]) # Empty
                                  /\ verifyES384Signature(tokens[i], verifyingKey(i))
      /\ \E i \in DOMAIN tokens : verifyingKey(i) = kMojangRootPublicKeyBase64

-----------------------------------------------------------------------------
(* The identity *)

NoIdentity == [valid |-> FALSE, displayName |-> Empty, xuid |-> Empty, identityUUID |-> Empty,
               publicKeyBase64 |-> Empty, xboxAuthenticated |-> FALSE]

\* From the one token of the newer format.
TokenIdentity(payload) ==
  LET key == jsonExtractString(payload, "identityPublicKey")
  IN  [valid             |-> jsonExtractString(payload, "xname") # Empty,
       displayName       |-> jsonExtractString(payload, "xname"),
       xuid              |-> jsonExtractString(payload, "xid"),
       identityUUID      |-> jsonExtractString(payload, "sub"),
       publicKeyBase64   |-> IF key = Empty THEN jsonExtractString(payload, "cpk") ELSE key,
       xboxAuthenticated |-> FALSE]

\* The object behind "extraData" up to the brace that closes it, <<>> if none does.
Depth(json, from, to) ==
  Cardinality({i \in from..to : json[i] = Mark("{")}) - Cardinality({i \in from..to : json[i] = Mark("}")})

ExtraData(payload) ==
  LET key    == PlaceOf(payload, Named("extraData"), 1)
      start  == IF key = 0 THEN 0 ELSE PlaceOf(payload, Mark("{"), key)
      closed == IF start = 0 THEN {} ELSE {i \in start..Len(payload) : Depth(payload, start, i) = 0}
  IN  IF closed = {} THEN <<>> ELSE SubSeq(payload, start, Min(closed))

LinkIdentity(payload, verified) ==
  LET object == ExtraData(payload)
      name   == jsonExtractString(object, "displayName")
  IN  [valid             |-> name # Empty,
       displayName       |-> name,
       xuid              |-> jsonExtractString(object, "XUID"),
       identityUUID      |-> jsonExtractString(object, "identity"),
       publicKeyBase64   |-> jsonExtractString(payload, "identityPublicKey"),
       xboxAuthenticated |-> name # Empty /\ verified]

\* The first link with a name ends the search; one without leaves what it has.
ChainIdentity(tokens, start) ==
  LET verified == verifyLoginChain(tokens)
      next(found, jwt) ==
        IF found.valid \/ ExtraData(decodeJwtPayload(jwt)) = <<>> THEN found
        ELSE LinkIdentity(decodeJwtPayload(jwt), verified)
  IN  FoldLeft(next, start, tokens)

extractLoginIdentity(json) ==
  LET payload == decodeJwtPayload(jsonExtractString(json, "Token"))
      first   == IF PlaceOf(json, Named("Token"), 1) = 0 \/ payload = <<>> THEN NoIdentity
                 ELSE TokenIdentity(payload)
  IN  IF first.valid THEN first ELSE ChainIdentity(extractChainTokens(json), first)

-----------------------------------------------------------------------------
(* The skin *)

base64Decode(value) == IF DOMAIN value = {"b64"} THEN value.b64 ELSE <<>>

extractClientSkinData(payload) ==
  LET text(key)    == jsonExtractString(payload, key)
      decoded(key) == base64Decode(text(key))
      number(key)  == jsonExtractInt(payload, key)
      flag(key)    == jsonExtractBool(payload, key, FALSE)
  IN  [skinId |-> text("SkinId"), skinResourcePatch |-> decoded("SkinResourcePatch"),
       skinImageWidth |-> number("SkinImageWidth"), skinImageHeight |-> number("SkinImageHeight"),
       skinImageData |-> decoded("SkinData"),
       capeId |-> text("CapeId"), capeImageWidth |-> number("CapeImageWidth"),
       capeImageHeight |-> number("CapeImageHeight"), capeImageData |-> decoded("CapeData"),
       skinGeometryData |-> decoded("SkinGeometryData"),
       skinGeometryDataVersion |-> text("SkinGeometryDataEngineVersion"),
       skinAnimationData |-> decoded("SkinAnimationData"),
       armSize |-> IF text("ArmSize") = Empty THEN [name |-> "wide"] ELSE text("ArmSize"),
       personaSkin |-> flag("PersonaSkin"), premiumSkin |-> flag("PremiumSkin"),
       capeOnClassicSkin |-> flag("CapeOnClassicSkin")]

\* Only a skin whose pixels are as many as its sides say is one.
ValidSkin(skin) ==
  /\ skin.skinImageData # <<>>
  /\ skin.skinImageWidth > 0
  /\ skin.skinImageHeight > 0
  /\ skin.skinImageWidth * skin.skinImageHeight * 4 = Len(skin.skinImageData)

-----------------------------------------------------------------------------
(* The packet *)

\* A length beyond the packet is no error: there is no string, and nothing behind it.
readLPStringLE(data, offset) ==
  LET len == readUInt(data, offset)
  IN  IF len = OutOfRange \/ len.offset + len.value > Len(data)
      THEN [value |-> <<>>, offset |-> Len(data)]
      ELSE [value  |-> SubSeq(data, len.offset + 1, len.offset + len.value),
            offset |-> len.offset + len.value]

Unread == [chain |-> <<>>, clientData |-> <<>>, dropped |-> TRUE]

\* handleLogin's way through the packet, from behind its header on.
LoginStrings(data, offset) ==
  LET payloadLength == readVarInt(data, offset + 4)
      chain         == readLPStringLE(data, payloadLength.offset)
  IN  IF offset + 4 >= Len(data) THEN Unread
      ELSE IF payloadLength = OutOfRange \/ payloadLength.offset >= Len(data) THEN Unread
      ELSE [chain |-> chain.value, clientData |-> readLPStringLE(data, chain.offset).value,
            dropped |-> FALSE]

\* What it leaves in the session: of a skin that is none, nothing but the flag.
AfterLogin(state, identity, skin) ==
  (IF ValidSkin(skin) THEN skin ELSE <<>>)
  @@ [loggedIn |-> identity.valid, displayName |-> identity.displayName, xuid |-> identity.xuid,
      identityUUID |-> identity.identityUUID, hasSkinData |-> ValidSkin(skin)]
  @@ state

-----------------------------------------------------------------------------
(* The player list.  Text is bytes here; the characters of a UUID are hex   *)
(* digits 0..15, others, and dashes.                                       *)

Dash == -1

parseUUIDToBytes(text) ==
  LET hex       == SelectSeq(text, LAMBDA c : c # Dash)
      nibble(c) == IF c \in 0..15 THEN c ELSE 0
  IN  [i \in 1..16 |-> IF Len(hex) # 32 THEN 0 ELSE 16 * nibble(hex[2 * i - 1]) + nibble(hex[2 * i])]

writeSkinImage(width, height, data) ==
  writeInt(width) \o writeInt(height) \o writeVarInt(Len(data)) \o data

\* The skin shown: the player's own, or a plain one of 64 by 64.
Placeholder ==
  [skinId |-> <<83>>, skinResourcePatch |-> <<>>, skinImageWidth |-> 64, skinImageHeight |-> 64,
   skinImageData |-> [i \in 1..(64 * 64 * 4) |-> <<198, 134, 66, 255>>[((i - 1) % 4) + 1]],
   capeId |-> <<>>, capeImageWidth |-> 0, capeImageHeight |-> 0, capeImageData |-> <<>>,
   skinGeometryData |-> <<71>>, skinGeometryDataVersion |-> <<>>, skinAnimationData |-> <<>>,
   slim |-> FALSE, personaSkin |-> FALSE, premiumSkin |-> FALSE, capeOnClassicSkin |-> FALSE]

ShownSkin(subject) == IF subject.hasSkinData THEN subject.skin ELSE Placeholder

EmptyList   == writeVarInt(0)
EmptyString == writeString(<<>>)

SkinBytes(skin) ==
  writeString(skin.skinId) \o EmptyString \o writeString(skin.skinResourcePatch)
    \o writeSkinImage(skin.skinImageWidth, skin.skinImageHeight, skin.skinImageData)
    \o EmptyList
    \o writeSkinImage(skin.capeImageWidth, skin.capeImageHeight, skin.capeImageData)
    \o writeString(skin.skinGeometryData) \o writeString(skin.skinGeometryDataVersion)
    \o writeString(skin.skinAnimationData) \o writeString(skin.capeId) \o writeString(skin.skinId)
    \o <<IF skin.slim THEN 0 ELSE 1>> \o writeIntBE(0) \o EmptyList \o EmptyList
    \o writeBool(skin.premiumSkin) \o writeBool(skin.personaSkin) \o writeBool(skin.capeOnClassicSkin)
    \o writeBool(TRUE) \o writeBool(TRUE) \o EmptyString \o EmptyString

kPlayerList == 63

sendPlayerListAddOf(toItself, subject, entityUniqueId) ==
  writeVarInt(kPlayerList) \o writeVarInt(1) \o writeVarInt(1) \o <<0>>
    \o parseUUIDToBytes(subject.identityUUID) \o writeZigZag64(entityUniqueId)
    \o writeString(subject.displayName)
    \o writeString(IF subject.xuid = <<>> THEN <<48>> ELSE subject.xuid)
    \o EmptyString \o writeInt(-1) \o SkinBytes(ShownSkin(subject))
    \o writeBool(FALSE) \o writeBool(toItself) \o writeBool(FALSE) \o writeIntBE(0)

writePlayerUuid(text) == parseUUIDToBytes(text)

sendPlayerListRemove(subject) ==
  writeVarInt(kPlayerList) \o writeVarInt(1) \o writeVarInt(0) \o <<1>>
    \o writePlayerUuid(subject.identityUUID)
=============================================================================
