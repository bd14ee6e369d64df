----------------------------- MODULE ServerConfig -----------------------------
(***************************************************************************)
(* What is read before the server starts and what it is started with:      *)
(* server.properties (Config/Config.cpp), the advertisement made of it     *)
(* (LBNet/Server/ServerManager.cpp) and the outer part of the receive loop *)
(* (LBNet/Server/Server.cpp).                                              *)
(*                                                                         *)
(* A line is a sequence of tokens: white space, "#", "=", ";" or a word.   *)
(***************************************************************************)
EXTENDS SequencesExt, Integers, TLC

Blank == "_"

defaults ==
  [port |-> 19132, bindAddress |-> <<"0.0.0.0">>, motd |-> <<"LBCore">>, levelName |-> <<"World">>,
   gamemode |-> <<"Survival">>, maxPlayers |-> 10, protocolVersion |-> 2193,
   versionName |-> <<"26.51">>, enableCommands |-> TRUE]

\* std::stoi: the number at the front of a text; of others, without a digit or with
\* more than an int holds, it throws.
Numerals == ("0" :> 0) @@ ("-1" :> -1) @@ ("1" :> 1) @@ ("25565" :> 25565) @@ ("65535" :> 65535)
              @@ ("70000" :> 70000) @@ ("2" :> 2) @@ ("2193x" :> 2193)
IsNumber(value) == value # <<>> /\ value[1] \in DOMAIN Numerals
Stoi(value) == Numerals[value[1]]

trim(s) ==
  LET solid == {i \in DOMAIN s : s[i] # Blank}
  IN  IF solid = {} THEN <<>> ELSE SubSeq(s, Min(solid), Max(solid))

\* Nothing of a line that is empty, a comment or without "=".
IsSetting(line) ==
  /\ trim(line) # <<>>
  /\ trim(line)[1] # "#"
  /\ \E i \in DOMAIN line : line[i] = "="

KeyOf(line)   == trim(SubSeq(line, 1, SelectInSeq(line, LAMBDA t : t = "=") - 1))
ValueOf(line) == trim(SubSeq(line, SelectInSeq(line, LAMBDA t : t = "=") + 1, Len(line)))

\* The fields by their keys.
Texts   == ("bind-address" :> "bindAddress") @@ ("motd" :> "motd") @@ ("level-name" :> "levelName")
             @@ ("gamemode" :> "gamemode") @@ ("version-name" :> "versionName")
Numbers == ("max-players" :> "maxPlayers") @@ ("protocol-version" :> "protocolVersion")

\* A number that cannot be read leaves what was there; a key that is not one word
\* is unknown.
Set(config, key, value) ==
  CASE key = <<"port">> /\ IsNumber(value) -> [config EXCEPT !.port = Stoi(value) % 65536]
    [] key = <<"enable-commands">> ->
         [config EXCEPT !.enableCommands = value \in {<<"true">>, <<"1">>, <<"yes">>}]
    [] Len(key) = 1 /\ key[1] \in DOMAIN Texts -> [config EXCEPT ![Texts[key[1]]] = value]
    [] Len(key) = 1 /\ key[1] \in DOMAIN Numbers /\ IsNumber(value) ->
         [config EXCEPT ![Numbers[key[1]]] = Stoi(value)]
    [] OTHER -> config

\* A file that cannot be opened is one without lines.
loadConfig(lines) ==
  FoldLeft(LAMBDA config, line : IF IsSetting(line) THEN Set(config, KeyOf(line), ValueOf(line))
                                 ELSE config,
           defaults, lines)

-----------------------------------------------------------------------------
(* The advertisement *)

getServerProperties(config) ==
  LET Ended(text) == Append(text, ";")
  IN  FlattenSeq(<<Ended(<<"MCPE">>), Ended(config.motd), Ended(<<ToString(config.protocolVersion)>>),
                   Ended(config.versionName), Ended(<<"0">>), Ended(<<ToString(config.maxPlayers)>>),
                   Ended(<<"1122334455667788">>), Ended(config.levelName), Ended(config.gamemode),
                   Ended(<<"1">>), Ended(<<ToString(config.port)>>), Ended(<<ToString(config.port + 1)>>)>>)

-----------------------------------------------------------------------------
(* The server's socket and its loop *)

\* The address to bind to: any, unless another one is named that is one.
Address(config, addresses) ==
  IF config.bindAddress \in {<<"0.0.0.0">>, <<>>} \/ config.bindAddress \notin addresses
  THEN <<"0.0.0.0">> ELSE config.bindAddress

\* Whether start() comes to its loop, and what it leaves as the server's socket: a
\* socket that could not be bound is closed but stays there.
start(opened, bound) ==
  [listens |-> opened /\ bound, serverSocket |-> IF ~opened THEN "none" ELSE IF bound THEN "open" ELSE "closed"]

BufferSize == 2048

\* What decodePacket() is called with: at most a buffer full of a datagram.
Datagrams(received) ==
  LET Part(d) == SubSeq(d, 1, IF Len(d) < BufferSize THEN Len(d) ELSE BufferSize)
  IN  [i \in DOMAIN SelectSeq(received, LAMBDA d : d # <<>>) |->
         Part(SelectSeq(received, LAMBDA d : d # <<>>)[i])]

\* Whom the end of the loop says good-bye to: clients are [loggedIn |-> ...].
disconnectAllClients(socket, clients) ==
  IF socket = "none" THEN <<>> ELSE SelectSeq(clients, LAMBDA c : c.loggedIn)

-----------------------------------------------------------------------------
(* On every file of few lines out of a small set. *)

Keys   == {<<"port">>, <<"motd">>, <<"max-players">>, <<"protocol-version">>, <<"enable-commands">>,
           <<"level-name">>, <<"motto">>, <<"port", "_", "x">>}
Values == {<<>>, <<"25565">>, <<"70000">>, <<"-1">>, <<"2", "_", "players">>, <<"word">>, <<"true">>,
           <<"a", ";", "b">>, <<"a", "=", "b">>}

\* A setting with and without white space, one in a comment, and what is no setting.
Line(key, value) == key \o <<"=">> \o value
Lines == {Line(k, v) : k \in Keys, v \in Values}
Noise == {<<>>, <<"_">>, <<"#">>, <<"motd">>, <<"_", "#", "motd", "=", "word">>}

\* White space around key, value and line says nothing, nor does a line of noise
\* at any place; a line without a key sets nothing.
ASSUME OnlySettingsCount ==
  /\ \A k \in Keys, v \in Values :
       loadConfig(<<<<"_">> \o k \o <<"_", "=", "_">> \o v \o <<"_", "_">>>>) = loadConfig(<<Line(k, v)>>)
  /\ \A l \in Lines, n \in Noise : loadConfig(<<n, l, n>>) = loadConfig(<<l>>)
  /\ \A n \in Noise : loadConfig(<<n>>) = defaults
  /\ loadConfig(<<<<"=", "word">>>>) = defaults

\* Of two settings of one key the second counts, unless it cannot be read; settings
\* of two keys do not touch each other.
ASSUME LaterSettingsCount ==
  \A k1 \in Keys, k2 \in Keys, v1 \in Values, v2 \in Values :
    LET one == loadConfig(<<Line(k1, v1)>>)
        two == loadConfig(<<Line(k2, v2)>>)
        both == loadConfig(<<Line(k1, v1), Line(k2, v2)>>)
    IN  \A f \in DOMAIN defaults :
          \/ both[f] = two[f] /\ (k1 = k2 \/ one[f] = defaults[f])
          \/ both[f] = one[f] /\ two[f] = defaults[f]

\* The port stays a port, and wraps around: 70000 is 4464 and -1 is 65535.
ASSUME PortIsAPort ==
  /\ \A l \in Lines : loadConfig(<<l>>).port \in 0..65535
  /\ loadConfig(<<Line(<<"port">>, <<"70000">>)>>).port = 4464
  /\ loadConfig(<<Line(<<"port">>, <<"-1">>)>>).port = 65535

\* The fields of an advertisement, between the semicolons.
FieldsOf(text) ==
  LET ends   == {i \in DOMAIN text : text[i] = ";"}
      End(n) == IF n = 0 THEN 0 ELSE CHOOSE e \in ends : Cardinality({i \in ends : i <= e}) = n
  IN  [n \in 1..Cardinality(ends) |-> SubSeq(text, End(n - 1) + 1, End(n) - 1)]

\* A client finds each field at the place the protocol gives it, as long as no text
\* has a semicolon; of two ports the second is the first and one, which is none
\* where the first is the last.
ASSUME AdvertisementIsRead ==
  \A l \in Lines :
    LET config == loadConfig(<<l>>)
        fields == FieldsOf(getServerProperties(config))
        whole  == \A f \in {config.motd, config.levelName} : ";" \notin Range(f)
    IN  /\ (Len(fields) = 12) <=> whole
        /\ whole =>
             /\ fields[2] = config.motd /\ fields[4] = config.versionName
             /\ fields[8] = config.levelName /\ fields[9] = config.gamemode
             /\ fields[3] = <<ToString(config.protocolVersion)>>
             /\ fields[11] = <<ToString(config.port)>> /\ fields[12] = <<ToString(config.port + 1)>>

\* An address that is none does not keep the server from starting.
ASSUME AddressIsUsable ==
  \A b \in {<<>>, <<"0.0.0.0">>, <<"127.0.0.1">>, <<"localhost">>} :
    LET addresses == {<<"0.0.0.0">>, <<"127.0.0.1">>}
    IN  Address([defaults EXCEPT !.bindAddress = b], addresses) \in addresses

\* Whatever is received, what is handled is no longer than the buffer and not empty.
ASSUME DatagramsFit ==
  \A n \in {0, 1, 2047, 2048, 2049, 4000} :
    LET handled == Datagrams(<<[i \in 1..n |-> 0], <<7>>>>)
    IN  /\ \A i \in DOMAIN handled : Len(handled[i]) \in 1..BufferSize
        /\ handled[Len(handled)] = <<7>>

\* Only a server that listens leaves a socket to send on.
ASSUME GoodByes ==
  \A opened, bound \in BOOLEAN :
    start(opened, bound).listens =>
      disconnectAllClients(start(opened, bound).serverSocket,
                           <<[loggedIn |-> TRUE, id |-> 1], [loggedIn |-> FALSE, id |-> 2]>>)
        = <<[loggedIn |-> TRUE, id |-> 1]>>
=============================================================================
