---------------------------- MODULE Multiplayer ----------------------------
(***************************************************************************)
(* What players see and hear of each other: the last step of the spawn     *)
(* sequence, the broadcasts of LBBNet/Packets/Multiplayer.cpp (join, leave, *)
(* movement, arm swings).  Chat has a module of its own.                   *)
(*                                                                         *)
(* A client's picture of the others is kept beside its session: what the   *)
(* packets sent to it so far amount to.  They arrive whole and in order    *)
(* (SendPath).  A session whose client has vanished is one that stays and  *)
(* is silent.                                                              *)
(*                                                                         *)
(* The source has sendSpawnSequencePhase2() return before it spawns the    *)
(* player ("INTENTIONALLY DISABLED, for a deliberate isolation test"):     *)
(* Phase2Enabled is FALSE there, and TRUE is the code with that return     *)
(* taken out, which everything else in this module is written for.         *)
(***************************************************************************)
EXTENDS Integers

CONSTANTS Players,        \* addresses
          Uuids,          \* identities a login may give, the zero UUID among them
          Positions,      \* positions of a player, on one axis, in steps of 0.001
          Spawn,          \* the position shown before the first input
          Epsilon,        \* the largest change that is not a movement
          Interval,       \* every so many inputs are forwarded anyway, 20
          Phase2Enabled,
          Active,         \* bound: the players that move
          MaxSessions     \* bound: sessions created

ASSUME MultiplayerAssumption ==
  /\ Positions \subseteq Int /\ Spawn \in Positions
  /\ Epsilon \in Nat /\ Interval \in Nat \ {0}
  /\ Phase2Enabled \in BOOLEAN /\ Active \subseteq Players
  /\ MaxSessions \in Nat

VARIABLES clientStates,   \* address -> session, for the players with one
          nextClientIndex,
          picture,        \* address -> what its client was told in this session
          shared          \* history: UUIDs two spawned players had at once

vars == <<clientStates, nextClientIndex, picture, shared>>

Sessions == DOMAIN clientStates
Spawned  == {c \in Sessions : clientStates[c].spawned}
EntityIds == 2..(MaxSessions + 1)

\* actors: entity id -> position; confused: was sent a packet about an actor it
\* did not have, or had already.
NoPicture == [actors |-> [e \in {} |-> Spawn], listed |-> {}, confused |-> FALSE]

TypeOK ==
  /\ Sessions \subseteq Players
  /\ \A c \in Sessions :
       clientStates[c] \in
         [entityId : EntityIds, identityUUID : Uuids, spawnSequenceSent : BOOLEAN,
          spawnPhase2Sent : BOOLEAN, spawned : BOOLEAN, receivedAuthInput : BOOLEAN,
          pos : Positions, authInputCount : 0..(Interval - 1)]
  /\ nextClientIndex \in 0..MaxSessions
  /\ DOMAIN picture = Players
  /\ \A c \in Players : /\ DOMAIN picture[c].actors \subseteq EntityIds
                        /\ \A e \in DOMAIN picture[c].actors : picture[c].actors[e] \in Positions
                        /\ picture[c].listed \subseteq Uuids
                        /\ picture[c].confused \in BOOLEAN
  /\ shared \subseteq Uuids

Init ==
  /\ clientStates = [c \in {} |-> NoPicture]
  /\ nextClientIndex = 0
  /\ picture = [c \in Players |-> NoPicture]
  /\ shared = {}

-----------------------------------------------------------------------------
(* What a packet does to the picture of the client that gets it. *)

\* playerPosition(): the world spawn until the first input arrives.
playerPosition(s) == IF s.receivedAuthInput THEN s.pos ELSE Spawn

AddPlayer(pic, s) ==
  [pic EXCEPT !.actors = [e \in DOMAIN @ \cup {s.entityId} |->
                            IF e = s.entityId THEN playerPosition(s) ELSE @[e]],
              !.confused = @ \/ s.entityId \in DOMAIN pic.actors]

RemoveActor(pic, s) ==
  [pic EXCEPT !.actors = [e \in DOMAIN @ \ {s.entityId} |-> @[e]],
              !.confused = @ \/ s.entityId \notin DOMAIN pic.actors]

MovePlayer(pic, s) ==
  [pic EXCEPT !.actors = [e \in DOMAIN @ |-> IF e = s.entityId THEN playerPosition(s) ELSE @[e]],
              !.confused = @ \/ s.entityId \notin DOMAIN pic.actors]

Animate(pic, s) == [pic EXCEPT !.confused = @ \/ s.entityId \notin DOMAIN pic.actors]

\* The list is kept by UUID: one entry for all players who have the same.
PlayerListAdd(pic, s)    == [pic EXCEPT !.listed = @ \cup {s.identityUUID}]
PlayerListRemove(pic, s) == [pic EXCEPT !.listed = @ \ {s.identityUUID}]

-----------------------------------------------------------------------------
(* The handlers: functions from a world, all sessions and pictures, to the *)
(* world they leave behind.                                                *)

Here == [states |-> clientStates, pictures |-> picture]

SpawnedIn(w) == {c \in DOMAIN w.states : w.states[c].spawned}

\* forEachClient(): the spawned clients but p have the pictures `told`.
ToOthers(w, p, told) ==
  [w EXCEPT !.pictures =
     [c \in Players |-> IF c \in SpawnedIn(w) \ {p} THEN told[c] ELSE @[c]]]

\* Mutant: those who are there are not introduced to the one who joins.
OneWayIntroduction(w, p) ==
  LET states == [w.states EXCEPT ![p].spawned = TRUE]
      s == states[p]
  IN  ToOthers([w EXCEPT !.states = states], p,
               [c \in Players |-> AddPlayer(PlayerListAdd(w.pictures[c], s), s)])

\* The joining player gets everyone who is there, and everyone there gets it.
\* Its own entry of the player list, added earlier in phase 2, is added here.
announcePlayerJoined(w, p) ==
  LET states == [w.states EXCEPT ![p].spawned = TRUE]
      s == states[p]
      others == SpawnedIn(w) \ {p}
      mine == [actors   |-> [e \in {states[c].entityId : c \in others} |->
                               playerPosition(CHOOSE t \in {states[c] : c \in others} :
                                                t.entityId = e)],
               listed   |-> {states[c].identityUUID : c \in others \cup {p}},
               confused |-> w.pictures[p].confused]
      met == ToOthers([w EXCEPT !.states = states], p,
                      [c \in Players |-> AddPlayer(PlayerListAdd(w.pictures[c], s), s)])
  IN  [met EXCEPT !.pictures[p] = mine]

sendSpawnSequencePhase2(w, p) ==
  LET sent == [w EXCEPT !.states[p].spawnPhase2Sent = TRUE]
  IN  IF w.states[p].spawnPhase2Sent THEN w
      ELSE IF Phase2Enabled THEN announcePlayerJoined(sent, p) ELSE sent

\* Mutant: only the actor is taken back.
LeavesEntry(w, p) ==
  ToOthers(w, p, [c \in Players |-> RemoveActor(w.pictures[c], w.states[p])])

broadcastPlayerLeft(w, p) ==
  ToOthers(w, p, [c \in Players |->
                    PlayerListRemove(RemoveActor(w.pictures[c], w.states[p]), w.states[p])])

\* Mutant: the hook is called for every session, spawned or not.
RemovesUnspawned(w, p) ==
  LET told == broadcastPlayerLeft(w, p)
  IN  [states   |-> [c \in DOMAIN w.states \ {p} |-> w.states[c]],
       pictures |-> [told.pictures EXCEPT ![p] = NoPicture]]

\* The hook runs while the session of the leaving player is still there.
removeClient(w, p) ==
  LET told == IF w.states[p].spawned THEN broadcastPlayerLeft(w, p) ELSE w
  IN  [states   |-> [c \in DOMAIN w.states \ {p} |-> w.states[c]],
       pictures |-> [told.pictures EXCEPT ![p] = NoPicture]]

broadcastMovement(w, p) ==
  IF w.states[p].spawned
  THEN ToOthers(w, p, [c \in Players |-> MovePlayer(w.pictures[c], w.states[p])])
  ELSE w

Distance(a, b) == IF a > b THEN a - b ELSE b - a

\* Mutant: an input that is no movement is never forwarded.
OnlyMovements(s, pos) == ~s.receivedAuthInput \/ Distance(pos, s.pos) > Epsilon

\* The movement is measured from the last input, not from what others were told;
\* authInputCount is already the new one.
Forwarded(s, pos) ==
  \/ ~s.receivedAuthInput
  \/ Distance(pos, s.pos) > Epsilon
  \/ (s.authInputCount + 1) % Interval = 0

\* Phase 2 comes first, and shows the position from before.
handlePlayerAuthInput(w, p, pos) ==
  LET released == IF w.states[p].spawnSequenceSent THEN sendSpawnSequencePhase2(w, p) ELSE w
      s == released.states[p]
      stored == [released EXCEPT
                   !.states[p] = [s EXCEPT !.pos = pos, !.receivedAuthInput = TRUE,
                                    !.authInputCount = (@ + 1) % Interval]]
  IN  IF Forwarded(w.states[p], pos) THEN broadcastMovement(stored, p) ELSE stored

handleAnimate(w, p) ==
  IF w.states[p].spawned
  THEN ToOthers(w, p, [c \in Players |-> Animate(w.pictures[c], w.states[p])])
  ELSE w

-----------------------------------------------------------------------------
\* What "/list" answers.
OnlinePlayers == {clientStates[c].entityId : c \in Spawned}

-----------------------------------------------------------------------------
(* Actions *)

Become(w) ==
  /\ clientStates' = w.states
  /\ picture' = w.pictures
  /\ shared' = shared \cup
       {u \in Uuids : \E c, d \in SpawnedIn(w) :
          c # d /\ w.states[c].identityUUID = u /\ w.states[d].identityUUID = u}
  /\ UNCHANGED nextClientIndex

NewState(entityId, uuid) ==
  [entityId |-> entityId, identityUUID |-> uuid, spawnSequenceSent |-> FALSE,
   spawnPhase2Sent |-> FALSE, spawned |-> FALSE, receivedAuthInput |-> FALSE,
   pos |-> Spawn, authInputCount |-> 0]

\* Mutant: the first player's id is the one clients have for themselves.
IdsFromOne(p, uuid) ==
  /\ p \notin Sessions /\ nextClientIndex < MaxSessions
  /\ clientStates' = [c \in Sessions \cup {p} |->
       IF c = p THEN NewState(1 + nextClientIndex, uuid) ELSE clientStates[c]]
  /\ nextClientIndex' = nextClientIndex + 1
  /\ UNCHANGED <<picture, shared>>

\* A connection and its login.  A UUID that cannot be parsed becomes zero.
Login(p, uuid) ==
  /\ p \notin Sessions /\ nextClientIndex < MaxSessions
  /\ clientStates' = [c \in Sessions \cup {p} |->
       IF c = p THEN NewState(2 + nextClientIndex, uuid) ELSE clientStates[c]]
  /\ nextClientIndex' = nextClientIndex + 1
  /\ UNCHANGED <<picture, shared>>

RequestChunkRadius(p) ==
  /\ p \in Sessions
  /\ Become([Here EXCEPT !.states[p].spawnSequenceSent = TRUE])

SetLocalPlayerAsInitialised(p) == p \in Sessions /\ Become(sendSpawnSequencePhase2(Here, p))

PlayerAuthInput(p, pos) == p \in Sessions /\ Become(handlePlayerAuthInput(Here, p, pos))

ArmSwing(p) == p \in Sessions /\ Become(handleAnimate(Here, p))

Disconnect(p) == p \in Sessions /\ Become(removeClient(Here, p))

Next ==
  \/ \E p \in Players :
       \/ \E uuid \in Uuids : Login(p, uuid)
       \/ RequestChunkRadius(p) \/ SetLocalPlayerAsInitialised(p)
       \/ ArmSwing(p) \/ Disconnect(p)
  \/ \E p \in Active : \E pos \in Positions : PlayerAuthInput(p, pos)

Spec == Init /\ [][Next]_vars

-----------------------------------------------------------------------------
(* Properties *)

\* Who is there is who is seen: each spawned client was told of every other
\* spawned player, of nobody else, whatever the order in which players join,
\* leave unspawned and come back at the same address; "/list" answers the same.
PictureMatches ==
  \A c \in Spawned :
    DOMAIN picture[c].actors = OnlinePlayers \ {clientStates[c].entityId}

\* No client is sent a movement, an arm swing or the removal of an actor it was
\* not given, nor an actor twice.
NeverConfused == \A c \in Players : ~picture[c].confused

\* An entry of a client's player list belongs to a player who is there, and
\* every player who is there has one, unless two had the same UUID (a missing
\* or malformed one is the zero UUID) and one of them took the entry along.
PlayerListMatches ==
  \A c \in Spawned :
    LET there == {clientStates[d].identityUUID : d \in Spawned}
    IN  picture[c].listed \subseteq there /\ there \ shared \subseteq picture[c].listed

\* What others see of a player is never further off than the movements too small
\* to be forwarded add up to between two inputs that always are.
PositionsFollow ==
  \A c, d \in Spawned :
    clientStates[d].entityId \in DOMAIN picture[c].actors =>
      Distance(picture[c].actors[clientStates[d].entityId], playerPosition(clientStates[d]))
        <= Epsilon * (Interval - 1)
=============================================================================
