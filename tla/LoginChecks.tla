----------------------------- MODULE LoginChecks -----------------------------
(* LoginData against what a JSON reader and a client's packet reader make of *)
(* the same input.  TLC evaluates these assumptions when it starts on a      *)
(* module that extends this one.                                             *)
EXTENDS LoginData

-----------------------------------------------------------------------------
(* JSON, written as an object with its members in some order. *)

Member(key, value) == <<Named(key), Mark(":")>> \o value

Object(members) ==
  <<Mark("{")>>
    \o FlattenSeq([i \in DOMAIN members |->
         (IF i = 1 THEN <<>> ELSE <<Mark(",")>>) \o Member(members[i].key, members[i].value)])
    \o <<Mark("}")>>

Str(value) == <<Quoted(value)>>
Text(text) == Str([name |-> text])
Array(values) ==
  <<Mark("[")>> \o FlattenSeq([i \in DOMAIN values |->
                     (IF i = 1 THEN <<>> ELSE <<Mark(",")>>) \o Str(values[i])])
    \o <<Mark("]")>>

Is(key, value) == [key |-> key, value |-> value]
Orders(members) == {[i \in 1..Len(members) |-> members[order[i]]] :
                      order \in {o \in [1..Len(members) -> 1..Len(members)] :
                                   \A i, j \in 1..Len(members) : o[i] = o[j] => i = j}}

Jwt(payload, key) == [dots |-> 2, payload |-> payload, signedBy |-> [name |-> key]]

\* Whatever the order of the members, a claim is read as it is, and one that is not
\* there as nothing.
Claims == <<Is("displayName", Text("bob")), Is("identity", Text("u")),
            Is("age", <<[n |-> 7]>>), Is("old", <<[w |-> "true"]>>), Is("XUID", Text("9"))>>

ASSUME ClaimsRead ==
  \A members \in Orders(Claims) :
    LET json == Object(members)
    IN  /\ jsonExtractString(json, "displayName") = [name |-> "bob"]
        /\ jsonExtractString(json, "identity") = [name |-> "u"]
        /\ jsonExtractString(json, "XUID") = [name |-> "9"]
        /\ jsonExtractInt(json, "age") = 7
        /\ \A default \in BOOLEAN : /\ jsonExtractBool(json, "old", default)
                                    /\ jsonExtractBool(json, "age", default) = default
                                    /\ jsonExtractBool(json, "none", default) = default
        /\ jsonExtractString(json, "none") = Empty
        /\ \A key \in {"none", "old"} : jsonExtractInt(json, key) = 0

\* A claim that is no string takes the next string there is for its own, the key of
\* its neighbour; the last one has none.
ASSUME WrongType ==
  \A members \in Orders(Claims) :
    jsonExtractString(Object(members), "age")
      = IF members[5].key = "age" THEN Empty
        ELSE LET at == CHOOSE i \in 1..4 : members[i].key = "age" IN [name |-> members[at + 1].key]

\* A name that is the key of a later claim is found in its place: the claim is then
\* taken from whatever stands between the two, and is right if nothing does.
ASSUME NameLikeAKey ==
  \A members \in Orders([Claims EXCEPT ![1] = Is("displayName", Text("identity"))]) :
    LET place(key) == CHOOSE i \in 1..5 : members[i].key = key
        read       == jsonExtractString(Object(members), "identity")
    IN  (read = [name |-> "u"]) <=>
          \/ place("identity") < place("displayName")
          \/ place("identity") = place("displayName") + 1

-----------------------------------------------------------------------------
(* Identities *)

NewFormat(name, keyClaim) ==
  Object(<<Is("AuthenticationType", <<[n |-> 0]>>),
           Is("Token", Str(Jwt(Object(<<Is("xid", Text("9")), Is("xname", Text(name)),
                                        Is("sub", Text("u")), Is(keyClaim, Text("key"))>>), "k")))>>)

ASSUME TokenRead ==
  /\ \A claim \in {"cpk", "identityPublicKey"} :
       extractLoginIdentity(NewFormat("bob", claim))
         = [valid |-> TRUE, displayName |-> [name |-> "bob"], xuid |-> [name |-> "9"],
            identityUUID |-> [name |-> "u"], publicKeyBase64 |-> [name |-> "key"],
            xboxAuthenticated |-> FALSE]
  /\ ~extractLoginIdentity(NewFormat("", "cpk")).valid

\* A link that declares a key, one that has a name too, and their chains: the links
\* by who signed them, whom they declare and whether they have the name.
Link(signer, key, named) ==
  Jwt(Object((IF named
              THEN <<Is("extraData", Object(<<Is("XUID", Text("9")), Is("identity", Text("u")),
                                              Is("displayName", Text("bob"))>>))>> ELSE <<>>)
             \o <<Is("identityPublicKey", Text(key))>>), signer)

Keys  == {"client", "mojang", "other"}
Links == {[signer |-> s, key |-> k, named |-> n] : s, k \in Keys, n \in BOOLEAN}
Chain(links) == Object(<<Is("chain", Array([i \in DOMAIN links |->
                           Link(links[i].signer, links[i].key, links[i].named)]))>>)

\* Each link signed with the key the one before it declares, the first with its own,
\* and one of these keys the known one.
Genuine(links) ==
  LET by(i) == IF i = 1 THEN links[1].key ELSE links[i - 1].key
  IN  /\ \A i \in DOMAIN links : links[i].signer = by(i)
      /\ \E i \in DOMAIN links : by(i) = "mojang"

\* Whichever link has the name, it is found, with the key of that link; whoever has
\* none is nobody; the whole chain is looked at before it is called genuine.
ASSUME ChainsRead ==
  \A links \in [1..2 -> Links] \cup [1..1 -> Links] \cup {<<>>} :
    LET identity == extractLoginIdentity(Chain(links))
        named    == {i \in DOMAIN links : links[i].named}
    IN  /\ identity.valid = (named # {})
        /\ identity.valid =>
             /\ identity.displayName = [name |-> "bob"]
             /\ identity.xuid = [name |-> "9"]
             /\ identity.identityUUID = [name |-> "u"]
             /\ identity.publicKeyBase64 = [name |-> links[Min(named)].key]
        /\ identity.xboxAuthenticated = (identity.valid /\ Genuine(links))

\* Claims outside of extraData are not its claims, and one that is not closed has none.
ASSUME OnlyExtraData ==
  LET payload == Object(<<Is("extraData", Object(<<Is("more", Object(<<>>)), Is("XUID", Text("9"))>>)),
                          Is("displayName", Text("mallow"))>>)
      chain(p) == Object(<<Is("chain", Array(<<Jwt(p, "client")>>))>>)
  IN  /\ ~extractLoginIdentity(chain(payload)).valid
      /\ ExtraData(Front(Front(SelectSeq(payload, LAMBDA t : t # Mark("}"))))) = <<>>

-----------------------------------------------------------------------------
(* The packet *)

LoginPacket(protocol, chain, clientData) ==
  LET body == writeUInt(Len(chain)) \o chain \o writeUInt(Len(clientData)) \o clientData
  IN  writeIntBE(protocol) \o writeVarInt(Len(body)) \o body

Strings == {<<1>>, [i \in 1..130 |-> 7], <<>>, <<200, 0, 0, 0, 5>>}

\* Both strings are found whatever they contain.  Cut short, the packet has the
\* chain still if the cut is behind it, and never a part of a string.
ASSUME LoginRead ==
  \A chain, clientData \in Strings :
    LET whole == LoginPacket(800, chain, clientData)
        head  == 4 + VarIntLength(Len(chain) + Len(clientData) + 8)
    IN  /\ LoginStrings(whole, 0) = [chain |-> chain, clientData |-> clientData, dropped |-> FALSE]
        /\ \A n \in 0..(Len(whole) - 1) :
             LoginStrings(SubSeq(whole, 1, n), 0)
               = IF n <= head THEN Unread
                 ELSE [chain |-> IF n >= head + 4 + Len(chain) THEN chain ELSE <<>>,
                       clientData |-> IF n = Len(whole) THEN clientData ELSE <<>>,
                       dropped |-> FALSE]

-----------------------------------------------------------------------------
(* Skins and the player list.  The client reads a packet field by field. *)

Field(kind, buf, offset) ==
  CASE kind = "varint" -> readVarInt(buf, offset)
    [] kind = "byte"   -> readUByte(buf, offset)
    [] kind = "int"    -> readInt(buf, offset)
    [] kind = "intBE"  -> readUIntBE(buf, offset)
    [] kind = "string" -> readString(buf, offset)
    [] kind = "word"   -> readZigZag64(buf, offset)
    [] kind = "uuid"   -> [value |-> SubSeq(buf, offset + 1, offset + 16), offset |-> offset + 16]

FieldsOf(layout, buf) ==
  LET next(read, kind) ==
        LET field == Field(kind, buf, read.offset)
        IN  [values |-> Append(read.values, field.value), offset |-> field.offset]
  IN  FoldLeft(next, [values |-> <<>>, offset |-> 0], layout)

Image     == <<"int", "int", "string">>
SkinPart  == <<"string", "string", "string">> \o Image \o <<"varint">> \o Image
               \o <<"string", "string", "string", "string", "string", "byte", "intBE", "varint", "varint",
                    "byte", "byte", "byte", "byte", "byte", "string", "string">>
AddLayout == <<"varint", "varint", "varint", "byte", "uuid", "word", "string", "string", "string", "int">>
               \o SkinPart \o <<"byte", "byte", "byte", "intBE">>
RemoveLayout == <<"varint", "varint", "varint", "byte", "uuid">>

Pixels(n) == [i \in 1..(4 * n) |-> i % 256]

ClientData(width, height, skinPixels, capeWidth, capePixels) ==
  Object(<<Is("SkinId", Text("s")), Is("SkinImageWidth", <<[n |-> width]>>),
           Is("SkinImageHeight", <<[n |-> height]>>),
           Is("SkinData", Str([b64 |-> Pixels(skinPixels)])), Is("CapeImageWidth", <<[n |-> capeWidth]>>),
           Is("CapeImageHeight", <<[n |-> 1]>>), Is("CapeData", Str([b64 |-> Pixels(capePixels)])),
           Is("PersonaSkin", <<[w |-> "true"]>>)>>)

\* The session and then the subject of a player list entry that the data makes; the
\* texts that are names become bytes.
Shown(skin) ==
  [hasSkinData |-> ValidSkin(skin), identityUUID |-> <<>>, displayName |-> <<1, 2>>, xuid |-> <<>>,
   skin |-> [slim |-> skin.armSize = [name |-> "slim"]] @@ [skinId |-> <<9>>] @@ [capeId |-> <<>>]
              @@ [skinGeometryDataVersion |-> <<>>] @@ skin]

EntityId(n) == [k \in 0..63 |-> IF k < 8 THEN BitOf(n, k) ELSE 0]

\* Every entry is read to its end, and what it says of the skin's sides is true of its
\* pixels, whatever the client had sent; of the cape's sides it is what the client said.
ASSUME EntriesRead ==
  \A width, height \in {-1, 0, 1, 2}, skinPixels \in 0..4, capeWidth, capePixels \in 0..1,
     toItself \in BOOLEAN :
    LET skin  == extractClientSkinData(ClientData(width, height, skinPixels, capeWidth, capePixels))
        bytes == sendPlayerListAddOf(toItself, Shown(skin), EntityId(5))
        read  == FieldsOf(AddLayout, bytes)
        has(i, value) == read.values[i] = value
    IN  /\ ValidSkin(skin) <=> skinPixels > 0 /\ width > 0 /\ height > 0 /\ width * height = skinPixels
        /\ read.offset = Len(bytes)
        /\ has(1, 63) /\ has(2, 1) /\ has(3, 1) /\ has(6, EntityId(5)) /\ has(7, <<1, 2>>) /\ has(8, <<48>>)
        /\ has(10, -1)
        /\ read.values[14] > 0 /\ read.values[15] > 0
        /\ 4 * read.values[14] * read.values[15] = Len(read.values[16])
        /\ ValidSkin(skin) =>
             /\ has(11, <<9>>) /\ has(14, width) /\ has(16, Pixels(skinPixels))
             /\ has(18, capeWidth) /\ has(20, Pixels(capePixels))
        /\ ~ValidSkin(skin) => has(18, 0) /\ has(20, <<>>)
        /\ has(25, read.values[11]) /\ has(26, 1)
        /\ has(31, IF ValidSkin(skin) THEN 1 ELSE 0)
        /\ has(38, IF toItself THEN 1 ELSE 0)

\* An entry is taken away under the UUID it was made with, for every text of one.
Digits == [i \in 1..32 |-> i % 16]
Uuids  == {<<>>, Digits, SubSeq(Digits, 1, 8) \o <<Dash>> \o SubSeq(Digits, 9, 32) \o <<Dash>>,
           SubSeq(Digits, 1, 31), Append(Digits, 3), [Digits EXCEPT ![5] = 99]}

ASSUME EntriesTakenAway ==
  \A text \in Uuids :
    LET subject == [hasSkinData |-> FALSE, identityUUID |-> text, displayName |-> <<>>, xuid |-> <<7>>]
        added   == FieldsOf(AddLayout, sendPlayerListAddOf(TRUE, subject, EntityId(1))).values
        bytes   == sendPlayerListRemove(subject)
        removed == FieldsOf(RemoveLayout, bytes)
    IN  /\ removed.offset = Len(bytes)
        /\ removed.values[5] = added[5]
        /\ removed.values[3] = 0 /\ added[8] = <<7>>
        /\ (added[5] = [i \in 1..16 |-> 0]) <=> Len(SelectSeq(text, LAMBDA c : c # Dash)) # 32

\* The skin of an earlier login is not shown after one without a skin.
ASSUME SkinsDoNotLinger ==
  LET none     == [skinImageData |-> <<>>]
      with     == extractClientSkinData(ClientData(1, 1, 1, 0, 0))
      without  == extractClientSkinData(<<>>)
      identity == extractLoginIdentity(NewFormat("bob", "cpk"))
      once     == AfterLogin(none, identity, with)
      twice    == AfterLogin(once, NoIdentity, without)
  IN  /\ once.hasSkinData /\ once.loggedIn /\ once.skinImageData = Pixels(1)
      /\ ~twice.hasSkinData /\ ~twice.loggedIn /\ twice.displayName = Empty
      /\ twice.skinImageData = Pixels(1)
=============================================================================
