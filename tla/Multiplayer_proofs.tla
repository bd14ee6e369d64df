------------------------- MODULE Multiplayer_proofs -------------------------
(***************************************************************************)
(* Proofs about Multiplayer, for all players, identities, positions and    *)
(* intervals, and however many sessions come and go.                       *)
(***************************************************************************)
EXTENDS Multiplayer, TLAPS

SessionType ==
  [entityId : EntityIds, identityUUID : Uuids, spawnSequenceSent : BOOLEAN,
   spawnPhase2Sent : BOOLEAN, spawned : BOOLEAN, receivedAuthInput : BOOLEAN,
   pos : Positions, authInputCount : 0..(Interval - 1)]

Actors      == UNION {[D -> Positions] : D \in SUBSET EntityIds}
PictureType == [actors : Actors, listed : SUBSET Uuids, confused : BOOLEAN]
States      == UNION {[D -> SessionType] : D \in SUBSET Players}
Worlds      == [states : States, pictures : [Players -> PictureType]]

(* The parts of the invariant are about a world: what is there between two *)
(* handlers, and also what a handler has made of it so far.                *)

\* Ids below the next one, each used once; phase 2 precedes the spawn.
WorldOK(w, n) ==
  /\ w \in Worlds
  /\ \A c \in DOMAIN w.states :
       /\ w.states[c].entityId < 2 + n
       /\ w.states[c].spawned => w.states[c].spawnPhase2Sent
  /\ \A c, d \in DOMAIN w.states :
       w.states[c].entityId = w.states[d].entityId => c = d

ActorsOf(w, c) == {w.states[d].entityId : d \in SpawnedIn(w) \ {c}}

Matching(w) == \A c \in SpawnedIn(w) : DOMAIN w.pictures[c].actors = ActorsOf(w, c)

Calm(w) == \A c \in Players : ~w.pictures[c].confused

UuidsIn(w) == {w.states[d].identityUUID : d \in SpawnedIn(w)}

Listing(w, twice) ==
  \A c \in SpawnedIn(w) : /\ w.pictures[c].listed \subseteq UuidsIn(w)
                          /\ UuidsIn(w) \ twice \subseteq w.pictures[c].listed

SharedKnown(w, twice) ==
  \A c, d \in SpawnedIn(w) :
    c # d /\ w.states[c].identityUUID = w.states[d].identityUUID
      => w.states[c].identityUUID \in twice

\* The drift since the last update grows by at most one Epsilon an input.
Close(w) ==
  \A c, d \in SpawnedIn(w) :
    c # d => Distance(w.pictures[c].actors[w.states[d].entityId], playerPosition(w.states[d]))
               <= Epsilon * w.states[d].authInputCount

Good(w, n, twice) ==
  WorldOK(w, n) /\ Matching(w) /\ Calm(w) /\ Listing(w, twice) /\ Close(w)

-----------------------------------------------------------------------------
(* Functions on some of the ids, and on some of the players. *)

LEMMA ActorsFacts ==
  ASSUME NEW a \in Actors
  PROVE  a \in [DOMAIN a -> Positions] /\ DOMAIN a \in SUBSET EntityIds
BY DEF Actors

LEMMA IsActors ==
  ASSUME NEW D \in SUBSET EntityIds, NEW a \in [D -> Positions] PROVE a \in Actors
BY DEF Actors

LEMMA StatesFacts ==
  ASSUME NEW s \in States
  PROVE  s \in [DOMAIN s -> SessionType] /\ DOMAIN s \in SUBSET Players
BY DEF States

LEMMA IsStates ==
  ASSUME NEW D \in SUBSET Players, NEW s \in [D -> SessionType] PROVE s \in States
BY DEF States

LEMMA PositionType ==
  ASSUME NEW s \in SessionType PROVE playerPosition(s) \in Positions
BY MultiplayerAssumption DEF SessionType, playerPosition

LEMMA SpawnedInFacts ==
  ASSUME NEW w \in Worlds
  PROVE  /\ SpawnedIn(w) \subseteq DOMAIN w.states
         /\ SpawnedIn(w) \subseteq Players
         /\ \A c \in DOMAIN w.states : w.states[c] \in SessionType
<1>1. w.states \in States
  BY DEF Worlds
<1> QED
  BY <1>1, StatesFacts DEF SpawnedIn

-----------------------------------------------------------------------------
(* What the packets do to a picture. *)

LEMMA AddPlayerFacts ==
  ASSUME NEW pic \in PictureType, NEW s \in SessionType
  PROVE  LET new == AddPlayer(pic, s)
         IN  /\ new \in PictureType
             /\ new.actors = [e \in DOMAIN pic.actors \cup {s.entityId} |->
                                IF e = s.entityId THEN playerPosition(s) ELSE pic.actors[e]]
             /\ new.listed = pic.listed
             /\ new.confused = (pic.confused \/ s.entityId \in DOMAIN pic.actors)
<1> DEFINE a == [e \in DOMAIN pic.actors \cup {s.entityId} |->
                   IF e = s.entityId THEN playerPosition(s) ELSE pic.actors[e]]
           c == (pic.confused \/ s.entityId \in DOMAIN pic.actors)
<1>1. a \in Actors
  <2>1. pic.actors \in Actors /\ s.entityId \in EntityIds
    BY DEF PictureType, SessionType
  <2>2. a \in [DOMAIN pic.actors \cup {s.entityId} -> Positions]
    BY <2>1, ActorsFacts, PositionType
  <2> QED
    BY <2>1, <2>2, ActorsFacts, IsActors
<1>2. c \in BOOLEAN
  OBVIOUS
<1>3. AddPlayer(pic, s) = [pic EXCEPT !.actors = a, !.confused = c]
  BY DEF AddPlayer
<1> HIDE DEF a, c
<1>4. [pic EXCEPT !.actors = a, !.confused = c] \in PictureType
  BY <1>1, <1>2 DEF PictureType
<1> QED
  BY <1>3, <1>4 DEF PictureType, a, c

LEMMA RemoveActorFacts ==
  ASSUME NEW pic \in PictureType, NEW s \in SessionType
  PROVE  LET new == RemoveActor(pic, s)
         IN  /\ new \in PictureType
             /\ new.actors = [e \in DOMAIN pic.actors \ {s.entityId} |-> pic.actors[e]]
             /\ new.listed = pic.listed
             /\ new.confused = (pic.confused \/ s.entityId \notin DOMAIN pic.actors)
<1> DEFINE a == [e \in DOMAIN pic.actors \ {s.entityId} |-> pic.actors[e]]
           c == (pic.confused \/ s.entityId \notin DOMAIN pic.actors)
<1>1. a \in Actors
  <2>1. pic.actors \in Actors
    BY DEF PictureType
  <2>2. a \in [DOMAIN pic.actors \ {s.entityId} -> Positions]
    BY <2>1, ActorsFacts
  <2> QED
    BY <2>1, <2>2, ActorsFacts, IsActors
<1>2. c \in BOOLEAN
  OBVIOUS
<1>3. RemoveActor(pic, s) = [pic EXCEPT !.actors = a, !.confused = c]
  BY DEF RemoveActor
<1> HIDE DEF a, c
<1>4. [pic EXCEPT !.actors = a, !.confused = c] \in PictureType
  BY <1>1, <1>2 DEF PictureType
<1> QED
  BY <1>3, <1>4 DEF PictureType, a, c

LEMMA MovePlayerFacts ==
  ASSUME NEW pic \in PictureType, NEW s \in SessionType
  PROVE  LET new == MovePlayer(pic, s)
         IN  /\ new \in PictureType
             /\ new.actors = [e \in DOMAIN pic.actors |->
                                IF e = s.entityId THEN playerPosition(s) ELSE pic.actors[e]]
             /\ new.listed = pic.listed
             /\ new.confused = (pic.confused \/ s.entityId \notin DOMAIN pic.actors)
<1> DEFINE a == [e \in DOMAIN pic.actors |->
                   IF e = s.entityId THEN playerPosition(s) ELSE pic.actors[e]]
           c == (pic.confused \/ s.entityId \notin DOMAIN pic.actors)
<1>1. a \in Actors
  <2>1. pic.actors \in Actors
    BY DEF PictureType
  <2>2. a \in [DOMAIN pic.actors -> Positions]
    BY <2>1, ActorsFacts, PositionType
  <2> QED
    BY <2>1, <2>2, ActorsFacts, IsActors
<1>2. c \in BOOLEAN
  OBVIOUS
<1>3. MovePlayer(pic, s) = [pic EXCEPT !.actors = a, !.confused = c]
  BY DEF MovePlayer
<1> HIDE DEF a, c
<1>4. [pic EXCEPT !.actors = a, !.confused = c] \in PictureType
  BY <1>1, <1>2 DEF PictureType
<1> QED
  BY <1>3, <1>4 DEF PictureType, a, c

LEMMA AnimateFacts ==
  ASSUME NEW pic \in PictureType, NEW s \in SessionType
  PROVE  LET new == Animate(pic, s)
         IN  /\ new \in PictureType
             /\ new.actors = pic.actors
             /\ new.listed = pic.listed
             /\ new.confused = (pic.confused \/ s.entityId \notin DOMAIN pic.actors)
<1> DEFINE c == (pic.confused \/ s.entityId \notin DOMAIN pic.actors)
<1>1. c \in BOOLEAN
  OBVIOUS
<1>2. Animate(pic, s) = [pic EXCEPT !.confused = c]
  BY DEF Animate
<1> HIDE DEF c
<1>3. [pic EXCEPT !.confused = c] \in PictureType
  BY <1>1 DEF PictureType
<1> QED
  BY <1>2, <1>3 DEF PictureType, c

LEMMA ListFacts ==
  ASSUME NEW pic \in PictureType, NEW s \in SessionType
  PROVE  /\ PlayerListAdd(pic, s) \in PictureType
         /\ PlayerListAdd(pic, s).actors = pic.actors
         /\ PlayerListAdd(pic, s).listed = pic.listed \cup {s.identityUUID}
         /\ PlayerListAdd(pic, s).confused = pic.confused
         /\ PlayerListRemove(pic, s) \in PictureType
         /\ PlayerListRemove(pic, s).actors = pic.actors
         /\ PlayerListRemove(pic, s).listed = pic.listed \ {s.identityUUID}
         /\ PlayerListRemove(pic, s).confused = pic.confused
BY DEF PictureType, SessionType, PlayerListAdd, PlayerListRemove

LEMMA ToOthersFacts ==
  ASSUME NEW w \in Worlds, NEW p, NEW told,
         \A c \in SpawnedIn(w) \ {p} : told[c] \in PictureType
  PROVE  LET new == ToOthers(w, p, told)
         IN  /\ new \in Worlds
             /\ new.states = w.states
             /\ SpawnedIn(new) = SpawnedIn(w)
             /\ \A c \in SpawnedIn(w) \ {p} : new.pictures[c] = told[c]
             /\ \A c \in Players : c \notin SpawnedIn(w) \/ c = p
                                     => new.pictures[c] = w.pictures[c]
<1> DEFINE pictures == [c \in Players |->
                          IF c \in SpawnedIn(w) \ {p} THEN told[c] ELSE w.pictures[c]]
<1>1. pictures \in [Players -> PictureType]
  BY DEF Worlds
<1>2. ToOthers(w, p, told) = [w EXCEPT !.pictures = pictures]
  BY DEF ToOthers
<1>3. SpawnedIn(w) \subseteq Players
  BY SpawnedInFacts
<1> HIDE DEF pictures
<1>4. /\ [w EXCEPT !.pictures = pictures] \in Worlds
      /\ [w EXCEPT !.pictures = pictures].states = w.states
      /\ [w EXCEPT !.pictures = pictures].pictures = pictures
  BY <1>1 DEF Worlds
<1> QED
  BY <1>2, <1>3, <1>4 DEF SpawnedIn, pictures

-----------------------------------------------------------------------------
(* A player leaves. *)

LEMMA NoPictureType == NoPicture \in PictureType /\ ~NoPicture.confused
<1>1. [e \in {} |-> Spawn] \in [{} -> Positions]
  OBVIOUS
<1>2. [e \in {} |-> Spawn] \in Actors
  BY <1>1, IsActors
<1> QED
  BY <1>2 DEF NoPicture, PictureType

\* What a client that stays is told of the one that leaves.
LEMMA TakenBack ==
  ASSUME NEW pic \in PictureType, NEW s \in SessionType
  PROVE  LET new == PlayerListRemove(RemoveActor(pic, s), s)
         IN  /\ new \in PictureType
             /\ DOMAIN new.actors = DOMAIN pic.actors \ {s.entityId}
             /\ \A e \in DOMAIN pic.actors \ {s.entityId} : new.actors[e] = pic.actors[e]
             /\ new.listed = pic.listed \ {s.identityUUID}
             /\ new.confused = (pic.confused \/ s.entityId \notin DOMAIN pic.actors)
<1> DEFINE mid == RemoveActor(pic, s)
<1>1. /\ mid \in PictureType
      /\ mid.actors = [e \in DOMAIN pic.actors \ {s.entityId} |-> pic.actors[e]]
      /\ mid.listed = pic.listed
      /\ mid.confused = (pic.confused \/ s.entityId \notin DOMAIN pic.actors)
  BY RemoveActorFacts
<1> HIDE DEF mid
<1>2. /\ PlayerListRemove(mid, s) \in PictureType
      /\ PlayerListRemove(mid, s).actors = mid.actors
      /\ PlayerListRemove(mid, s).listed = mid.listed \ {s.identityUUID}
      /\ PlayerListRemove(mid, s).confused = mid.confused
  BY <1>1, ListFacts
<1>3. QED
  BY <1>1, <1>2 DEF mid

\* The world after the removal, spawned or not.
LEMMA RemovalFacts ==
  ASSUME NEW w \in Worlds, NEW p \in DOMAIN w.states
  PROVE  LET new == removeClient(w, p)
             told == IF w.states[p].spawned THEN broadcastPlayerLeft(w, p) ELSE w
         IN  /\ new \in Worlds
             /\ told \in Worlds
             /\ told.states = w.states
             /\ DOMAIN new.states = DOMAIN w.states \ {p}
             /\ \A c \in DOMAIN new.states : new.states[c] = w.states[c]
             /\ new.pictures[p] = NoPicture
             /\ \A c \in Players \ {p} : new.pictures[c] = told.pictures[c]
             /\ SpawnedIn(new) = SpawnedIn(w) \ {p}
<1> DEFINE told == IF w.states[p].spawned THEN broadcastPlayerLeft(w, p) ELSE w
           rest == [c \in DOMAIN w.states \ {p} |-> w.states[c]]
<1>1. w.states \in States /\ w.pictures \in [Players -> PictureType]
  BY DEF Worlds
<1>2. told \in Worlds /\ told.states = w.states
  <2> DEFINE t == [c \in Players |->
                     PlayerListRemove(RemoveActor(w.pictures[c], w.states[p]), w.states[p])]
  <2>1. \A c \in SpawnedIn(w) \ {p} : t[c] \in PictureType
    BY <1>1, SpawnedInFacts, TakenBack
  <2>2. broadcastPlayerLeft(w, p) = ToOthers(w, p, t)
    BY DEF broadcastPlayerLeft
  <2> HIDE DEF t
  <2> QED
    BY <2>1, <2>2, ToOthersFacts
<1>3. rest \in States
  BY <1>1, StatesFacts, IsStates
<1>4. p \in Players
  BY <1>1, StatesFacts
<1>5. removeClient(w, p) = [states |-> rest, pictures |-> [told.pictures EXCEPT ![p] = NoPicture]]
  BY DEF removeClient
<1> HIDE DEF told
<1>6. /\ removeClient(w, p) \in Worlds
      /\ removeClient(w, p).states = rest
      /\ removeClient(w, p).pictures = [told.pictures EXCEPT ![p] = NoPicture]
  <2> HIDE DEF rest
  <2> QED
    BY <1>2, <1>3, <1>4, <1>5, NoPictureType DEF Worlds
<1>7. SpawnedIn(removeClient(w, p)) = SpawnedIn(w) \ {p}
  BY <1>6 DEF SpawnedIn
<1>8. \A c \in Players \ {p} : removeClient(w, p).pictures[c] = told.pictures[c]
  BY <1>2, <1>6 DEF Worlds
<1>9. removeClient(w, p).pictures[p] = NoPicture
  BY <1>2, <1>4, <1>6 DEF Worlds
<1> QED
  BY <1>2, <1>6, <1>7, <1>8, <1>9 DEF told

LEMMA LeavesGood ==
  ASSUME NEW w, NEW n, NEW twice, NEW p \in DOMAIN w.states,
         Good(w, n, twice), SharedKnown(w, twice)
  PROVE  Good(removeClient(w, p), n, twice)
<1> DEFINE new == removeClient(w, p)
           told == IF w.states[p].spawned THEN broadcastPlayerLeft(w, p) ELSE w
           gone == w.states[p]
<1>1. w \in Worlds
  BY DEF Good, WorldOK
<1>2. /\ new \in Worlds
      /\ DOMAIN new.states = DOMAIN w.states \ {p}
      /\ \A c \in DOMAIN new.states : new.states[c] = w.states[c]
      /\ new.pictures[p] = NoPicture
      /\ \A c \in Players \ {p} : new.pictures[c] = told.pictures[c]
      /\ SpawnedIn(new) = SpawnedIn(w) \ {p}
  BY <1>1, RemovalFacts
<1>3. /\ SpawnedIn(w) \subseteq DOMAIN w.states
      /\ SpawnedIn(w) \subseteq Players
      /\ gone \in SessionType
      /\ \A c \in Players : w.pictures[c] \in PictureType
  BY <1>1, SpawnedInFacts DEF Worlds
<1>4. p \in SpawnedIn(w) <=> w.states[p].spawned
  BY DEF SpawnedIn
<1>5. ASSUME NEW c \in SpawnedIn(w) \ {p}, p \in SpawnedIn(w)
      PROVE  /\ DOMAIN told.pictures[c].actors = DOMAIN w.pictures[c].actors \ {gone.entityId}
             /\ \A e \in DOMAIN w.pictures[c].actors \ {gone.entityId} :
                  told.pictures[c].actors[e] = w.pictures[c].actors[e]
             /\ told.pictures[c].listed = w.pictures[c].listed \ {gone.identityUUID}
             /\ told.pictures[c].confused
                  = (w.pictures[c].confused \/ gone.entityId \notin DOMAIN w.pictures[c].actors)
  <2> DEFINE t == [x \in Players |-> PlayerListRemove(RemoveActor(w.pictures[x], gone), gone)]
  <2>1. told = ToOthers(w, p, t)
    BY <1>4, <1>5 DEF broadcastPlayerLeft
  <2>2. \A x \in SpawnedIn(w) \ {p} : t[x] \in PictureType
    BY <1>3, TakenBack
  <2>3. told.pictures[c] = t[c]
    <3> HIDE DEF t, told
    <3> QED
      BY <1>1, <2>1, <2>2, ToOthersFacts
  <2>4. t[c] = PlayerListRemove(RemoveActor(w.pictures[c], gone), gone)
    BY <1>3
  <2> HIDE DEF t, told, gone
  <2> QED
    BY <1>3, <2>3, <2>4, TakenBack
<1>6. \A c \in Players : c \notin SpawnedIn(w) \/ p \notin SpawnedIn(w)
                           => told.pictures[c] = w.pictures[c]
  <2>1. CASE p \notin SpawnedIn(w)
    BY <1>4, <2>1
  <2>2. CASE p \in SpawnedIn(w)
    <3> DEFINE t == [x \in Players |-> PlayerListRemove(RemoveActor(w.pictures[x], gone), gone)]
    <3>1. told = ToOthers(w, p, t)
      BY <1>4, <2>2 DEF broadcastPlayerLeft
    <3>2. \A x \in SpawnedIn(w) \ {p} : t[x] \in PictureType
      BY <1>3, TakenBack
    <3> HIDE DEF t, told
    <3> QED
      BY <1>1, <2>2, <3>1, <3>2, ToOthersFacts
  <2> QED
    BY <2>1, <2>2
<1> HIDE DEF new, told
<1>10. WorldOK(new, n)
  BY <1>2 DEF Good, WorldOK
<1>11. Matching(new)
  <2> SUFFICES ASSUME NEW c \in SpawnedIn(new)
               PROVE  DOMAIN new.pictures[c].actors = ActorsOf(new, c)
    BY DEF Matching
  <2>1. c \in SpawnedIn(w) \ {p} /\ c \in Players
    BY <1>2, <1>3
  <2>2. DOMAIN w.pictures[c].actors = ActorsOf(w, c)
    BY <2>1 DEF Good, Matching
  <2>3. \A d \in SpawnedIn(w) \ {p} : new.states[d] = w.states[d]
                                     /\ w.states[d].entityId # gone.entityId
    BY <1>2, <1>3 DEF Good, WorldOK
  <2>4. CASE p \in SpawnedIn(w)
    <3>1. DOMAIN new.pictures[c].actors = ActorsOf(w, c) \ {gone.entityId}
      BY <1>2, <1>5, <2>1, <2>2, <2>4
    <3> QED
      BY <1>2, <2>3, <3>1 DEF ActorsOf
  <2>5. CASE p \notin SpawnedIn(w)
    <3>1. DOMAIN new.pictures[c].actors = ActorsOf(w, c)
      BY <1>2, <1>6, <2>1, <2>2, <2>5
    <3> QED
      BY <1>2, <2>3, <2>5, <3>1 DEF ActorsOf
  <2> QED
    BY <2>4, <2>5
<1>12. Calm(new)
  <2> SUFFICES ASSUME NEW c \in Players PROVE ~new.pictures[c].confused
    BY DEF Calm
  <2>1. CASE c = p
    BY <1>2, <2>1, NoPictureType
  <2>2. CASE c # p /\ c \in SpawnedIn(w) /\ p \in SpawnedIn(w)
    <3>1. gone.entityId \in DOMAIN w.pictures[c].actors
      BY <2>2 DEF Good, Matching, ActorsOf
    <3> QED
      BY <1>2, <1>5, <2>2, <3>1 DEF Good, Calm
  <2>3. CASE c # p /\ (c \notin SpawnedIn(w) \/ p \notin SpawnedIn(w))
    BY <1>2, <1>6, <2>3 DEF Good, Calm
  <2> QED
    BY <2>1, <2>2, <2>3
<1>13. Listing(new, twice)
  <2> SUFFICES ASSUME NEW c \in SpawnedIn(new)
               PROVE  /\ new.pictures[c].listed \subseteq UuidsIn(new)
                      /\ UuidsIn(new) \ twice \subseteq new.pictures[c].listed
    BY DEF Listing
  <2>1. c \in SpawnedIn(w) \ {p} /\ c \in Players
    BY <1>2, <1>3
  <2>2. /\ w.pictures[c].listed \subseteq UuidsIn(w)
        /\ UuidsIn(w) \ twice \subseteq w.pictures[c].listed
    BY <2>1 DEF Good, Listing
  <2>3. \A d \in SpawnedIn(w) \ {p} : new.states[d] = w.states[d]
    BY <1>2, <1>3
  <2>4. CASE p \in SpawnedIn(w)
    <3>1. new.pictures[c].listed = w.pictures[c].listed \ {gone.identityUUID}
      BY <1>2, <1>5, <2>1, <2>4
    <3>2. \A d \in SpawnedIn(w) \ {p} : w.states[d].identityUUID = gone.identityUUID
                                         => gone.identityUUID \in twice
      BY <2>4 DEF SharedKnown
    <3>3. UuidsIn(w) \ {gone.identityUUID} \subseteq UuidsIn(new)
      BY <1>2, <2>3 DEF UuidsIn
    <3>4. UuidsIn(new) \ twice \subseteq UuidsIn(w) \ {gone.identityUUID}
      BY <1>2, <2>3, <3>2 DEF UuidsIn
    <3> HIDE DEF gone
    <3> QED
      BY <2>2, <3>1, <3>3, <3>4
  <2>5. CASE p \notin SpawnedIn(w)
    <3>1. new.pictures[c].listed = w.pictures[c].listed
      BY <1>2, <1>6, <2>1, <2>5
    <3>2. UuidsIn(new) = UuidsIn(w)
      BY <1>2, <2>3, <2>5 DEF UuidsIn
    <3> QED
      BY <2>2, <3>1, <3>2
  <2> QED
    BY <2>4, <2>5
<1>14. Close(new)
  <2> SUFFICES ASSUME NEW c \in SpawnedIn(new), NEW d \in SpawnedIn(new), c # d
               PROVE  Distance(new.pictures[c].actors[new.states[d].entityId],
                               playerPosition(new.states[d]))
                        <= Epsilon * new.states[d].authInputCount
    BY DEF Close
  <2>1. c \in SpawnedIn(w) \ {p} /\ d \in SpawnedIn(w) \ {p} /\ c \in Players
    BY <1>2, <1>3
  <2>2. new.states[d] = w.states[d] /\ w.states[d].entityId # gone.entityId
    BY <1>2, <1>3, <2>1 DEF Good, WorldOK
  <2>3. w.states[d].entityId \in DOMAIN w.pictures[c].actors
    BY <2>1 DEF Good, Matching, ActorsOf
  <2>4. new.pictures[c].actors[w.states[d].entityId] = w.pictures[c].actors[w.states[d].entityId]
    BY <1>2, <1>5, <1>6, <2>1, <2>2, <2>3
  <2> QED
    BY <2>1, <2>2, <2>4 DEF Good, Close
<1> QED
  BY <1>10, <1>11, <1>12, <1>13, <1>14 DEF Good, new

-----------------------------------------------------------------------------
(* A player spawns. *)

\* A session with one field changed is a session.
LEMMA SessionWith ==
  ASSUME NEW s \in SessionType
  PROVE  /\ LET new == [s EXCEPT !.spawned = TRUE]
            IN  /\ new \in SessionType
                /\ new.entityId = s.entityId /\ new.identityUUID = s.identityUUID
                /\ new.spawned /\ new.spawnPhase2Sent = s.spawnPhase2Sent
                /\ new.authInputCount = s.authInputCount
                /\ playerPosition(new) = playerPosition(s)
         /\ LET new == [s EXCEPT !.spawnPhase2Sent = TRUE]
            IN  /\ new \in SessionType
                /\ new.entityId = s.entityId /\ new.identityUUID = s.identityUUID
                /\ new.spawnPhase2Sent /\ new.spawned = s.spawned
                /\ new.authInputCount = s.authInputCount
                /\ playerPosition(new) = playerPosition(s)
         /\ LET new == [s EXCEPT !.spawnSequenceSent = TRUE]
            IN  /\ new \in SessionType
                /\ new.entityId = s.entityId /\ new.identityUUID = s.identityUUID
                /\ new.spawnPhase2Sent = s.spawnPhase2Sent /\ new.spawned = s.spawned
                /\ new.authInputCount = s.authInputCount
                /\ playerPosition(new) = playerPosition(s)
BY DEF SessionType, playerPosition

\* What a client that is there is told of the one that joins.
LEMMA Introduced ==
  ASSUME NEW pic \in PictureType, NEW s \in SessionType
  PROVE  LET new == AddPlayer(PlayerListAdd(pic, s), s)
         IN  /\ new \in PictureType
             /\ DOMAIN new.actors = DOMAIN pic.actors \cup {s.entityId}
             /\ new.actors[s.entityId] = playerPosition(s)
             /\ \A e \in DOMAIN pic.actors \ {s.entityId} : new.actors[e] = pic.actors[e]
             /\ new.listed = pic.listed \cup {s.identityUUID}
             /\ new.confused = (pic.confused \/ s.entityId \in DOMAIN pic.actors)
<1> DEFINE mid == PlayerListAdd(pic, s)
<1>1. /\ mid \in PictureType
      /\ mid.actors = pic.actors
      /\ mid.listed = pic.listed \cup {s.identityUUID}
      /\ mid.confused = pic.confused
  BY ListFacts
<1> HIDE DEF mid
<1>2. LET new == AddPlayer(mid, s)
      IN  /\ new \in PictureType
          /\ new.actors = [e \in DOMAIN mid.actors \cup {s.entityId} |->
                             IF e = s.entityId THEN playerPosition(s) ELSE mid.actors[e]]
          /\ new.listed = mid.listed
          /\ new.confused = (mid.confused \/ s.entityId \in DOMAIN mid.actors)
  BY <1>1, AddPlayerFacts
<1> QED
  BY <1>1, <1>2 DEF mid

\* The picture of the one that joins: what it is given of those who are there.
Met(states, others, p, confused) ==
  [actors   |-> [e \in {states[c].entityId : c \in others} |->
                   playerPosition(CHOOSE t \in {states[c] : c \in others} : t.entityId = e)],
   listed   |-> {states[c].identityUUID : c \in others \cup {p}},
   confused |-> confused]

IsMet(pic, states, others, p, confused) ==
  /\ pic \in PictureType
  /\ \A e : e \in DOMAIN pic.actors <=> \E c \in others : e = states[c].entityId
  /\ \A c \in others : pic.actors[states[c].entityId] = playerPosition(states[c])
  /\ \A u : u \in pic.listed <=> \E c \in others \cup {p} : u = states[c].identityUUID
  /\ pic.confused = confused

LEMMA MetFacts ==
  ASSUME NEW states \in States, NEW p \in DOMAIN states, NEW others \in SUBSET DOMAIN states,
         \A c, d \in DOMAIN states : states[c].entityId = states[d].entityId => c = d,
         NEW confused \in BOOLEAN
  PROVE  IsMet(Met(states, others, p, confused), states, others, p, confused)
<1> DEFINE ids == {states[c].entityId : c \in others}
           of(e) == CHOOSE t \in {states[c] : c \in others} : t.entityId = e
           a == [e \in ids |-> playerPosition(of(e))]
           l == {states[c].identityUUID : c \in others \cup {p}}
<1>1. \A c \in DOMAIN states : states[c] \in SessionType
  BY StatesFacts
<1>2. ASSUME NEW c \in others PROVE of(states[c].entityId) = states[c]
  <2>1. \E t \in {states[d] : d \in others} : t.entityId = states[c].entityId
    OBVIOUS
  <2>2. PICK t : /\ t = of(states[c].entityId)
                 /\ t \in {states[d] : d \in others} /\ t.entityId = states[c].entityId
    BY <2>1
  <2>3. PICK d \in others : t = states[d]
    BY <2>2
  <2>4. d = c
    BY <2>2, <2>3
  <2> QED
    BY <2>2, <2>3, <2>4
<1>3. \A c \in others : a[states[c].entityId] = playerPosition(states[c])
  BY <1>2
<1>4. a \in Actors
  <2>1. ids \in SUBSET EntityIds
    BY <1>1 DEF SessionType
  <2>2. \A e \in ids : playerPosition(of(e)) \in Positions
    <3> HIDE DEF of
    <3> QED
      BY <1>1, <1>2, PositionType
  <2>3. a \in [ids -> Positions]
    BY <2>2
  <2> HIDE DEF a, ids
  <2> QED
    BY <2>1, <2>3, IsActors
<1>5. l \in SUBSET Uuids
  BY <1>1 DEF SessionType
<1>6. Met(states, others, p, confused) = [actors |-> a, listed |-> l, confused |-> confused]
  BY DEF Met
<1>7. DOMAIN a = ids
  OBVIOUS
<1>8. \A u : u \in l <=> \E c \in others \cup {p} : u = states[c].identityUUID
  OBVIOUS
<1>9. \A e : e \in DOMAIN a <=> \E c \in others : e = states[c].entityId
  OBVIOUS
<1> HIDE DEF a, l
<1>10. [actors |-> a, listed |-> l, confused |-> confused] \in PictureType
  BY <1>4, <1>5 DEF PictureType
<1> QED
  BY <1>3, <1>6, <1>8, <1>9, <1>10 DEF IsMet

\* The states after p was marked as spawned.
LEMMA SpawnedStates ==
  ASSUME NEW w \in Worlds, NEW p \in DOMAIN w.states
  PROVE  LET states == [w.states EXCEPT ![p].spawned = TRUE]
             mid == [w EXCEPT !.states = states]
         IN  /\ states \in States
             /\ DOMAIN states = DOMAIN w.states
             /\ states[p] = [w.states[p] EXCEPT !.spawned = TRUE]
             /\ \A c \in DOMAIN states \ {p} : states[c] = w.states[c]
             /\ mid \in Worlds
             /\ mid.states = states
             /\ mid.pictures = w.pictures
             /\ SpawnedIn(mid) = SpawnedIn(w) \cup {p}
<1> DEFINE states == [w.states EXCEPT ![p].spawned = TRUE]
<1>1. w.states \in States /\ w.states \in [DOMAIN w.states -> SessionType]
      /\ DOMAIN w.states \in SUBSET Players
  BY StatesFacts DEF Worlds
<1>2. states[p] = [w.states[p] EXCEPT !.spawned = TRUE] /\ DOMAIN states = DOMAIN w.states
  OBVIOUS
<1>3. states[p] \in SessionType /\ states[p].spawned
  BY <1>1, <1>2, SessionWith
<1>4. \A c \in DOMAIN states \ {p} : states[c] = w.states[c]
  OBVIOUS
<1>5. states \in [DOMAIN w.states -> SessionType]
  BY <1>1, <1>3, <1>4
<1>6. states \in States
  BY <1>1, <1>5, IsStates
<1> HIDE DEF states
<1>7. /\ [w EXCEPT !.states = states] \in Worlds
      /\ [w EXCEPT !.states = states].states = states
      /\ [w EXCEPT !.states = states].pictures = w.pictures
  BY <1>6 DEF Worlds
<1> DEFINE mid == [w EXCEPT !.states = states]
<1>8. mid \in Worlds /\ mid.states = states /\ mid.pictures = w.pictures
  BY <1>7
<1>9. SpawnedIn(mid) = SpawnedIn(w) \cup {p}
  <2> HIDE DEF mid
  <2> QED
    BY <1>2, <1>3, <1>4, <1>8 DEF SpawnedIn
<1> QED
  BY <1>2, <1>4, <1>6, <1>8, <1>9 DEF states

\* The world after the announcement.
LEMMA AnnouncedFacts ==
  ASSUME NEW w, NEW n, WorldOK(w, n), NEW p \in DOMAIN w.states
  PROVE  LET new == announcePlayerJoined(w, p)
             s == [w.states[p] EXCEPT !.spawned = TRUE]
             others == SpawnedIn(w) \ {p}
         IN  /\ new \in Worlds
             /\ DOMAIN new.states = DOMAIN w.states
             /\ new.states[p] = s
             /\ \A c \in DOMAIN w.states \ {p} : new.states[c] = w.states[c]
             /\ SpawnedIn(new) = SpawnedIn(w) \cup {p}
             /\ new.pictures[p] = Met(new.states, others, p, w.pictures[p].confused)
             /\ \A c \in others :
                  new.pictures[c] = AddPlayer(PlayerListAdd(w.pictures[c], s), s)
             /\ \A c \in Players \ (others \cup {p}) : new.pictures[c] = w.pictures[c]
<1> DEFINE states == [w.states EXCEPT ![p].spawned = TRUE]
           s == states[p]
           others == SpawnedIn(w) \ {p}
           mid == [w EXCEPT !.states = states]
           t == [c \in Players |-> AddPlayer(PlayerListAdd(w.pictures[c], s), s)]
           met == ToOthers(mid, p, t)
           mine == Met(states, others, p, w.pictures[p].confused)
<1>1. /\ w \in Worlds
      /\ w.states \in States
      /\ \A c \in Players : w.pictures[c] \in PictureType
      /\ p \in Players
  <2>1. w \in Worlds /\ w.states \in States
    BY DEF WorldOK, Worlds
  <2> QED
    BY <2>1, StatesFacts DEF Worlds
<1>2. /\ states \in States
      /\ DOMAIN states = DOMAIN w.states
      /\ s = [w.states[p] EXCEPT !.spawned = TRUE]
      /\ \A c \in DOMAIN states \ {p} : states[c] = w.states[c]
      /\ mid \in Worlds
      /\ mid.states = states
      /\ mid.pictures = w.pictures
      /\ SpawnedIn(mid) = SpawnedIn(w) \cup {p}
  BY <1>1, SpawnedStates
<1>3. s \in SessionType /\ s.entityId = w.states[p].entityId
  BY <1>1, <1>2, SpawnedInFacts, SessionWith
<1>4. others \in SUBSET DOMAIN states /\ others \subseteq Players
  BY <1>1, <1>2, SpawnedInFacts
<1>5. \A c, d \in DOMAIN states : states[c].entityId = states[d].entityId => c = d
  <2>1. \A c \in DOMAIN states : states[c].entityId = w.states[c].entityId
    <3> HIDE DEF states
    <3> QED
      BY <1>2, <1>3
  <2> HIDE DEF states
  <2> QED
    BY <1>2, <2>1 DEF WorldOK
<1>6. mine \in PictureType
  <2>1. w.pictures[p].confused \in BOOLEAN
    BY <1>1 DEF PictureType
  <2> HIDE DEF states, others
  <2> QED
    BY <1>2, <1>4, <1>5, <2>1, MetFacts DEF IsMet
<1>7. \A c \in others : t[c] = AddPlayer(PlayerListAdd(w.pictures[c], s), s)
                        /\ t[c] \in PictureType
  <2> HIDE DEF others, s
  <2> QED
    BY <1>1, <1>3, <1>4, Introduced
<1>8. /\ met \in Worlds
      /\ met.states = states
      /\ \A c \in others : met.pictures[c] = t[c]
      /\ \A c \in Players \ (others \cup {p}) : met.pictures[c] = w.pictures[c]
  <2>1. SpawnedIn(mid) \ {p} = others
    BY <1>2
  <2> HIDE DEF mid, t, others, states
  <2> QED
    BY <1>1, <1>2, <1>7, <2>1, ToOthersFacts
<1>9. announcePlayerJoined(w, p) = [met EXCEPT !.pictures[p] = mine]
  BY DEF announcePlayerJoined, Met
<1> HIDE DEF met, mine
<1>10. /\ [met EXCEPT !.pictures[p] = mine] \in Worlds
       /\ [met EXCEPT !.pictures[p] = mine].states = met.states
       /\ [met EXCEPT !.pictures[p] = mine].pictures = [met.pictures EXCEPT ![p] = mine]
  BY <1>1, <1>6, <1>8 DEF Worlds
<1>11. met.pictures \in [Players -> PictureType]
  BY <1>8 DEF Worlds
<1> DEFINE new == announcePlayerJoined(w, p)
<1>13. /\ new \in Worlds /\ new.states = states
       /\ new.pictures = [met.pictures EXCEPT ![p] = mine]
  BY <1>8, <1>9, <1>10
<1> HIDE DEF new, states, t
<1>12. SpawnedIn(new) = SpawnedIn(w) \cup {p}
  <2> HIDE DEF mid
  <2> QED
    BY <1>2, <1>13 DEF SpawnedIn
<1>14. new.pictures[p] = mine
  BY <1>1, <1>11, <1>13
<1>15. \A c \in others : new.pictures[c] = AddPlayer(PlayerListAdd(w.pictures[c], s), s)
  BY <1>1, <1>4, <1>7, <1>8, <1>11, <1>13
<1>16. \A c \in Players \ (others \cup {p}) : new.pictures[c] = w.pictures[c]
  BY <1>1, <1>8, <1>11, <1>13
<1>17. new.pictures[p] = Met(new.states, others, p, w.pictures[p].confused)
  BY <1>13, <1>14 DEF mine
<1> QED
  BY <1>2, <1>12, <1>13, <1>15, <1>16, <1>17 DEF new

LEMMA NoDrift ==
  ASSUME NEW s \in SessionType, NEW x \in Int
  PROVE  Distance(x, x) <= Epsilon * s.authInputCount
<1>1. s.authInputCount \in Nat
  BY MultiplayerAssumption DEF SessionType
<1>2. \A a, b \in Nat : a * b \in Nat
  OBVIOUS
<1>3. Epsilon * s.authInputCount \in Nat
  BY <1>1, <1>2, MultiplayerAssumption
<1>4. Distance(x, x) = 0
  BY DEF Distance
<1> QED
  BY <1>3, <1>4

LEMMA JoinsGood ==
  ASSUME NEW w, NEW n, NEW twice, NEW p \in DOMAIN w.states, Good(w, n, twice),
         ~w.states[p].spawned, w.states[p].spawnPhase2Sent
  PROVE  Good(announcePlayerJoined(w, p), n, twice)
<1> DEFINE new == announcePlayerJoined(w, p)
           s == [w.states[p] EXCEPT !.spawned = TRUE]
           others == SpawnedIn(w) \ {p}
           met == Met(new.states, others, p, w.pictures[p].confused)
<1>1. w \in Worlds /\ WorldOK(w, n)
  BY DEF Good, WorldOK
<1>2. /\ new \in Worlds
      /\ DOMAIN new.states = DOMAIN w.states
      /\ new.states[p] = s
      /\ \A c \in DOMAIN w.states \ {p} : new.states[c] = w.states[c]
      /\ SpawnedIn(new) = SpawnedIn(w) \cup {p}
      /\ new.pictures[p] = met
      /\ \A c \in others : new.pictures[c] = AddPlayer(PlayerListAdd(w.pictures[c], s), s)
      /\ \A c \in Players \ (others \cup {p}) : new.pictures[c] = w.pictures[c]
  BY <1>1, AnnouncedFacts
<1>3. /\ SpawnedIn(w) \subseteq DOMAIN w.states
      /\ SpawnedIn(w) \subseteq Players
      /\ p \in Players
      /\ \A c \in DOMAIN w.states : w.states[c] \in SessionType
      /\ \A c \in Players : w.pictures[c] \in PictureType
  <2>1. w.states \in States
    BY <1>1 DEF Worlds
  <2> QED
    BY <1>1, <2>1, SpawnedInFacts, StatesFacts DEF Worlds
<1>4. others = SpawnedIn(w)
  BY DEF SpawnedIn
<1>5. /\ s \in SessionType
      /\ s.entityId = w.states[p].entityId
      /\ s.spawnPhase2Sent
  <2>1. s \in SessionType /\ s.entityId = w.states[p].entityId
    BY <1>3, SessionWith
  <2>2. s.spawnPhase2Sent
    BY <1>3 DEF SessionType
  <2> QED
    BY <2>1, <2>2
<1>6. \A c \in DOMAIN w.states : new.states[c].entityId = w.states[c].entityId
  <2> HIDE DEF new, s
  <2> QED
    BY <1>2, <1>5
<1>7. /\ met \in PictureType
      /\ \A e : e \in DOMAIN met.actors <=> \E c \in others : e = new.states[c].entityId
      /\ \A c \in others : met.actors[new.states[c].entityId] = playerPosition(new.states[c])
      /\ \A u : u \in met.listed <=> \E c \in others \cup {p} : u = new.states[c].identityUUID
      /\ met.confused = w.pictures[p].confused
  <2>1. new.states \in States
    BY <1>2 DEF Worlds
  <2>2. w.pictures[p].confused \in BOOLEAN
    BY <1>3 DEF PictureType
  <2>3. \A c, d \in DOMAIN new.states : new.states[c].entityId = new.states[d].entityId => c = d
    <3> HIDE DEF new
    <3> QED
      BY <1>1, <1>2, <1>6 DEF WorldOK
  <2>4. others \in SUBSET DOMAIN new.states /\ p \in DOMAIN new.states
    BY <1>2, <1>3
  <2>5. IsMet(met, new.states, others, p, w.pictures[p].confused)
    <3> HIDE DEF new, others
    <3> QED
      BY <2>1, <2>2, <2>3, <2>4, MetFacts
  <2> HIDE DEF new, others, met
  <2> QED
    BY <2>5 DEF IsMet
<1>8. \A c \in others :
        /\ w.states[c].entityId # s.entityId
        /\ s.entityId \notin DOMAIN w.pictures[c].actors
  <2>1. \A c \in others : w.states[c].entityId # s.entityId
    BY <1>1, <1>3, <1>5 DEF WorldOK
  <2>2. \A c \in others : DOMAIN w.pictures[c].actors = ActorsOf(w, c)
    BY DEF Good, Matching
  <2> HIDE DEF s
  <2> QED
    BY <1>4, <2>1, <2>2 DEF ActorsOf
<1>9. \A c \in others :
        /\ DOMAIN new.pictures[c].actors = DOMAIN w.pictures[c].actors \cup {s.entityId}
        /\ new.pictures[c].actors[s.entityId] = playerPosition(s)
        /\ \A e \in DOMAIN w.pictures[c].actors : new.pictures[c].actors[e] = w.pictures[c].actors[e]
        /\ new.pictures[c].listed = w.pictures[c].listed \cup {s.identityUUID}
        /\ new.pictures[c].confused = w.pictures[c].confused
  <2> TAKE c \in others
  <2>1. /\ w.pictures[c] \in PictureType
        /\ new.pictures[c] = AddPlayer(PlayerListAdd(w.pictures[c], s), s)
        /\ s.entityId \notin DOMAIN w.pictures[c].actors
    BY <1>2, <1>3, <1>8
  <2>2. w.pictures[c].confused \in BOOLEAN
    BY <2>1 DEF PictureType
  <2> HIDE DEF new, s, others
  <2>3. /\ DOMAIN new.pictures[c].actors = DOMAIN w.pictures[c].actors \cup {s.entityId}
        /\ new.pictures[c].actors[s.entityId] = playerPosition(s)
        /\ \A e \in DOMAIN w.pictures[c].actors \ {s.entityId} :
             new.pictures[c].actors[e] = w.pictures[c].actors[e]
        /\ new.pictures[c].listed = w.pictures[c].listed \cup {s.identityUUID}
        /\ new.pictures[c].confused
             = (w.pictures[c].confused \/ s.entityId \in DOMAIN w.pictures[c].actors)
    BY <1>5, <2>1, Introduced
  <2> QED
    BY <2>1, <2>2, <2>3
<1> HIDE DEF new, s, met, others
<1>10. WorldOK(new, n)
  <2>1. \A c \in DOMAIN new.states :
          /\ new.states[c].entityId < 2 + n
          /\ new.states[c].spawned => new.states[c].spawnPhase2Sent
    BY <1>1, <1>2, <1>5, <1>6 DEF WorldOK
  <2> QED
    BY <1>1, <1>2, <1>6, <2>1 DEF WorldOK
<1>11. Matching(new)
  <2> SUFFICES ASSUME NEW c \in SpawnedIn(new)
               PROVE  DOMAIN new.pictures[c].actors = ActorsOf(new, c)
    BY DEF Matching
  <2>1. CASE c = p
    BY <1>2, <1>4, <1>7, <2>1 DEF ActorsOf, others
  <2>2. CASE c # p
    <3>1. c \in others
      BY <1>2, <1>4, <2>2
    <3>2. DOMAIN new.pictures[c].actors = ActorsOf(w, c) \cup {s.entityId}
      BY <1>4, <1>9, <3>1 DEF Good, Matching
    <3>3. SpawnedIn(new) \ {c} = (SpawnedIn(w) \ {c}) \cup {p}
      BY <1>2, <2>2
    <3>4. \A d \in SpawnedIn(new) : new.states[d].entityId = w.states[d].entityId
      BY <1>2, <1>3, <1>6
    <3> QED
      BY <1>5, <3>2, <3>3, <3>4 DEF ActorsOf
  <2> QED
    BY <2>1, <2>2
<1>12. Calm(new)
  <2> SUFFICES ASSUME NEW c \in Players PROVE ~new.pictures[c].confused
    BY DEF Calm
  <2>1. ~w.pictures[c].confused
    BY DEF Good, Calm
  <2> QED
    BY <1>2, <1>7, <1>9, <2>1
<1>13. Listing(new, twice)
  <2>1. UuidsIn(new) = UuidsIn(w) \cup {s.identityUUID}
    <3>1. \A d \in SpawnedIn(w) : new.states[d] = w.states[d]
      BY <1>2, <1>3, <1>4 DEF others
    <3> QED
      BY <1>2, <3>1 DEF UuidsIn
  <2>2. met.listed = UuidsIn(new)
    BY <1>2, <1>4, <1>7 DEF UuidsIn
  <2>3. \A c \in others : /\ w.pictures[c].listed \subseteq UuidsIn(w)
                          /\ UuidsIn(w) \ twice \subseteq w.pictures[c].listed
    BY <1>4 DEF Good, Listing
  <2> SUFFICES ASSUME NEW c \in SpawnedIn(new)
               PROVE  /\ new.pictures[c].listed \subseteq UuidsIn(new)
                      /\ UuidsIn(new) \ twice \subseteq new.pictures[c].listed
    BY DEF Listing
  <2>4. CASE c = p
    BY <1>2, <2>2, <2>4
  <2>5. CASE c \in others
    BY <1>9, <2>1, <2>3, <2>5
  <2> QED
    BY <1>2, <1>4, <2>4, <2>5
<1>14. Close(new)
  <2> SUFFICES ASSUME NEW c \in SpawnedIn(new), NEW d \in SpawnedIn(new), c # d
               PROVE  Distance(new.pictures[c].actors[new.states[d].entityId],
                               playerPosition(new.states[d]))
                        <= Epsilon * new.states[d].authInputCount
    BY DEF Close
  <2>1. new.states[d] \in SessionType
    BY <1>2, SpawnedInFacts
  <2>2. playerPosition(new.states[d]) \in Int
    BY <2>1, PositionType, MultiplayerAssumption
  <2>3. CASE c = p
    BY <1>2, <1>4, <1>7, <2>1, <2>2, <2>3, NoDrift
  <2>4. CASE d = p
    BY <1>2, <1>4, <1>9, <2>1, <2>2, <2>4, NoDrift
  <2>5. CASE c # p /\ d # p
    <3>1. c \in others /\ d \in SpawnedIn(w) /\ d \in DOMAIN w.states /\ new.states[d] = w.states[d]
      BY <1>2, <1>3, <1>4, <2>5
    <3>2. w.states[d].entityId \in DOMAIN w.pictures[c].actors
      BY <1>4, <3>1 DEF Good, Matching, ActorsOf
    <3>3. new.pictures[c].actors[w.states[d].entityId] = w.pictures[c].actors[w.states[d].entityId]
      BY <1>9, <3>1, <3>2
    <3> QED
      BY <1>4, <3>1, <3>3 DEF Good, Close
  <2> QED
    BY <2>3, <2>4, <2>5
<1> QED
  BY <1>10, <1>11, <1>12, <1>13, <1>14 DEF Good, new

\* Nothing of what others see of a session is different in v.
LooksSame(v, w) ==
  /\ v \in Worlds /\ v.pictures = w.pictures
  /\ DOMAIN v.states = DOMAIN w.states
  /\ \A c \in DOMAIN w.states :
       /\ v.states[c].entityId = w.states[c].entityId
       /\ v.states[c].identityUUID = w.states[c].identityUUID
       /\ v.states[c].spawned <=> w.states[c].spawned
       /\ w.states[c].spawnPhase2Sent => v.states[c].spawnPhase2Sent
       /\ v.states[c].authInputCount = w.states[c].authInputCount
       /\ playerPosition(v.states[c]) = playerPosition(w.states[c])

LEMMA LooksSameGood ==
  ASSUME NEW w, NEW v, NEW n, NEW twice, Good(w, n, twice), LooksSame(v, w)
  PROVE  Good(v, n, twice) /\ SpawnedIn(v) = SpawnedIn(w)
<1>1. SpawnedIn(v) = SpawnedIn(w) /\ SpawnedIn(w) \subseteq DOMAIN w.states
  BY DEF LooksSame, SpawnedIn
<1>2. WorldOK(v, n)
  BY DEF LooksSame, Good, WorldOK
<1>3. Matching(v)
  <2>1. \A c \in SpawnedIn(w) : ActorsOf(v, c) = ActorsOf(w, c)
    BY <1>1 DEF LooksSame, ActorsOf
  <2> QED
    BY <1>1, <2>1 DEF LooksSame, Good, Matching
<1>4. Calm(v)
  BY DEF LooksSame, Good, Calm
<1>5. Listing(v, twice)
  <2>1. UuidsIn(v) = UuidsIn(w)
    BY <1>1 DEF LooksSame, UuidsIn
  <2> QED
    BY <1>1, <2>1 DEF LooksSame, Good, Listing
<1>6. Close(v)
  BY <1>1 DEF LooksSame, Good, Close
<1> QED
  BY <1>1, <1>2, <1>3, <1>4, <1>5, <1>6 DEF Good

\* A session that others see no change of may take the place of p's.
LEMMA ReplaceFacts ==
  ASSUME NEW w \in Worlds, NEW p \in DOMAIN w.states, NEW s \in SessionType,
         s.entityId = w.states[p].entityId, s.identityUUID = w.states[p].identityUUID,
         s.spawned <=> w.states[p].spawned,
         w.states[p].spawnPhase2Sent => s.spawnPhase2Sent,
         s.authInputCount = w.states[p].authInputCount,
         playerPosition(s) = playerPosition(w.states[p]),
         NEW v, v = [w EXCEPT !.states = [w.states EXCEPT ![p] = s]]
  PROVE  LooksSame(v, w) /\ v.states[p] = s
<1> DEFINE states == [w.states EXCEPT ![p] = s]
<1>1. w.states \in [DOMAIN w.states -> SessionType] /\ DOMAIN w.states \in SUBSET Players
  <2>1. w.states \in States
    BY DEF Worlds
  <2> QED
    BY <2>1, StatesFacts
<1>2. states \in [DOMAIN w.states -> SessionType]
  BY <1>1
<1>3. states \in States
  BY <1>1, <1>2, IsStates
<1>4. DOMAIN states = DOMAIN w.states /\ states[p] = s
      /\ \A c \in DOMAIN w.states \ {p} : states[c] = w.states[c]
  BY <1>1
<1> HIDE DEF states
<1>5. v \in Worlds /\ v.states = states /\ v.pictures = w.pictures
  BY <1>3 DEF Worlds, states
<1> QED
  BY <1>4, <1>5 DEF LooksSame

LEMMA Phase2Good ==
  ASSUME NEW w, NEW n, NEW twice, NEW p \in DOMAIN w.states, Good(w, n, twice)
  PROVE  LET new == sendSpawnSequencePhase2(w, p)
         IN  /\ Good(new, n, twice)
             /\ DOMAIN new.states = DOMAIN w.states
             /\ new.states[p].pos = w.states[p].pos
             /\ new.states[p].receivedAuthInput = w.states[p].receivedAuthInput
             /\ new.states[p].authInputCount = w.states[p].authInputCount
<1> DEFINE s == [w.states[p] EXCEPT !.spawnPhase2Sent = TRUE]
           sent == [w EXCEPT !.states = [w.states EXCEPT ![p] = s]]
<1>1. w \in Worlds /\ WorldOK(w, n) /\ w.states[p] \in SessionType
  BY SpawnedInFacts DEF Good, WorldOK
<1>2. CASE w.states[p].spawnPhase2Sent
  BY <1>2 DEF sendSpawnSequencePhase2
<1>3. CASE ~w.states[p].spawnPhase2Sent
  <2>1. /\ s \in SessionType
        /\ s.entityId = w.states[p].entityId /\ s.identityUUID = w.states[p].identityUUID
        /\ s.spawned = w.states[p].spawned
        /\ s.authInputCount = w.states[p].authInputCount
        /\ playerPosition(s) = playerPosition(w.states[p])
    BY <1>1, SessionWith
  <2>2. /\ s.pos = w.states[p].pos /\ s.receivedAuthInput = w.states[p].receivedAuthInput
        /\ s.spawnPhase2Sent
    BY <1>1 DEF SessionType
  <2>3. ~w.states[p].spawned
    BY <1>1, <1>3 DEF WorldOK
  <2>4. LooksSame(sent, w) /\ sent.states[p] = s
    <3> HIDE DEF s
    <3> QED
      BY <1>1, <2>1, <2>2, ReplaceFacts
  <2>5. Good(sent, n, twice)
    <3> HIDE DEF sent
    <3> QED
      BY <2>4, LooksSameGood
  <2>6. DOMAIN sent.states = DOMAIN w.states
    BY <2>4 DEF LooksSame
  <2>7. sendSpawnSequencePhase2(w, p)
          = IF Phase2Enabled THEN announcePlayerJoined(sent, p) ELSE sent
    BY <1>3 DEF sendSpawnSequencePhase2
  <2> HIDE DEF sent, s
  <2>8. CASE Phase2Enabled
    <3>1. ~sent.states[p].spawned /\ sent.states[p].spawnPhase2Sent
      BY <2>1, <2>2, <2>3, <2>4
    <3> DEFINE new == announcePlayerJoined(sent, p)
    <3>2. Good(new, n, twice)
      BY <2>5, <2>6, <3>1, JoinsGood
    <3>3. DOMAIN new.states = DOMAIN sent.states
          /\ new.states[p] = [sent.states[p] EXCEPT !.spawned = TRUE]
      BY <2>5, <2>6, AnnouncedFacts DEF Good
    <3>4. /\ new.states[p].pos = s.pos
          /\ new.states[p].receivedAuthInput = s.receivedAuthInput
          /\ new.states[p].authInputCount = s.authInputCount
      <4> HIDE DEF new
      <4> QED
        BY <2>1, <2>4, <3>3 DEF SessionType
    <3> HIDE DEF new
    <3>5. sendSpawnSequencePhase2(w, p) = new
      BY <2>7, <2>8 DEF new
    <3> QED
      BY <2>1, <2>2, <2>6, <3>2, <3>3, <3>4, <3>5
  <2>9. CASE ~Phase2Enabled
    BY <2>1, <2>2, <2>4, <2>5, <2>6, <2>7, <2>9
  <2> QED
    BY <2>8, <2>9
<1> QED
  BY <1>2, <1>3

-----------------------------------------------------------------------------
(* A player moves. *)

LEMMA NextCount ==
  ASSUME NEW k \in 0..(Interval - 1)
  PROVE  /\ (k + 1) % Interval \in 0..(Interval - 1)
         /\ (k + 1) % Interval # 0 => (k + 1) % Interval = k + 1
<1>1. Interval \in Nat \ {0}
  BY MultiplayerAssumption
<1>2. CASE k + 1 = Interval
  <2>1. (k + 1) % Interval = 0
    BY <1>1, <1>2
  <2> QED
    BY <1>1, <2>1
<1>3. CASE k + 1 < Interval
  <2>1. (k + 1) % Interval = k + 1
    BY <1>1, <1>3
  <2> QED
    BY <1>1, <1>3, <2>1
<1> QED
  BY <1>1, <1>2, <1>3

LEMMA Drift ==
  ASSUME NEW shown \in Int, NEW last \in Int, NEW pos \in Int, NEW k \in Nat,
         Distance(shown, last) <= Epsilon * k, Distance(pos, last) <= Epsilon
  PROVE  Distance(shown, pos) <= Epsilon * (k + 1)
<1>1. Epsilon \in Nat
  BY MultiplayerAssumption
<1>2. Epsilon * (k + 1) = Epsilon * k + Epsilon /\ Epsilon * k \in Int
  BY <1>1
<1>3. Distance(shown, pos) <= Distance(shown, last) + Distance(pos, last)
  BY DEF Distance
<1>4. Distance(shown, pos) \in Int /\ Distance(shown, last) \in Int /\ Distance(pos, last) \in Int
  BY DEF Distance
<1> QED
  BY <1>1, <1>2, <1>3, <1>4

\* p's session after an input, as far as others are concerned.
LEMMA InputSession ==
  ASSUME NEW s \in SessionType, NEW pos \in Positions
  PROVE  LET new == [s EXCEPT !.pos = pos, !.receivedAuthInput = TRUE,
                                !.authInputCount = (@ + 1) % Interval]
         IN  /\ new \in SessionType
             /\ new.entityId = s.entityId /\ new.identityUUID = s.identityUUID
             /\ new.spawned <=> s.spawned
             /\ s.spawnPhase2Sent => new.spawnPhase2Sent
             /\ new.authInputCount = (s.authInputCount + 1) % Interval
             /\ playerPosition(new) = pos
<1>1. (s.authInputCount + 1) % Interval \in 0..(Interval - 1)
  BY NextCount DEF SessionType
<1> QED
  BY <1>1 DEF SessionType, playerPosition

\* With p's session replaced and the pictures as they were, only what others
\* see of p may be off.
IsStored(v, w, p, s, n, twice) ==
  /\ WorldOK(v, n) /\ Matching(v) /\ Calm(v) /\ Listing(v, twice)
  /\ v.pictures = w.pictures /\ v.states[p] = s
  /\ DOMAIN v.states = DOMAIN w.states
  /\ \A c \in DOMAIN w.states \ {p} : v.states[c] = w.states[c]
  /\ SpawnedIn(v) = SpawnedIn(w)

LEMMA StoredFacts ==
  ASSUME NEW w, NEW n, NEW twice, NEW p \in DOMAIN w.states, Good(w, n, twice),
         NEW s \in SessionType,
         s.entityId = w.states[p].entityId, s.identityUUID = w.states[p].identityUUID,
         s.spawned <=> w.states[p].spawned,
         w.states[p].spawnPhase2Sent => s.spawnPhase2Sent,
         NEW v, v = [w EXCEPT !.states = [w.states EXCEPT ![p] = s]]
  PROVE  IsStored(v, w, p, s, n, twice)
<1> DEFINE states == [w.states EXCEPT ![p] = s]
<1>1. w \in Worlds /\ WorldOK(w, n)
  BY DEF Good, WorldOK
<1>2. w.states \in [DOMAIN w.states -> SessionType] /\ DOMAIN w.states \in SUBSET Players
  <2>1. w.states \in States
    BY <1>1 DEF Worlds
  <2> QED
    BY <2>1, StatesFacts
<1>3. states \in [DOMAIN w.states -> SessionType]
  BY <1>2
<1>4. states \in States
  BY <1>2, <1>3, IsStates
<1>5. DOMAIN states = DOMAIN w.states /\ states[p] = s
      /\ \A c \in DOMAIN w.states \ {p} : states[c] = w.states[c]
  BY <1>2
<1> HIDE DEF states
<1>6. v \in Worlds /\ v.states = states /\ v.pictures = w.pictures
  BY <1>1, <1>4 DEF Worlds, states
<1>7. SpawnedIn(v) = SpawnedIn(w) /\ SpawnedIn(w) \subseteq DOMAIN w.states
  BY <1>5, <1>6 DEF SpawnedIn
<1>8. \A c \in DOMAIN w.states :
        /\ v.states[c].entityId = w.states[c].entityId
        /\ v.states[c].identityUUID = w.states[c].identityUUID
        /\ v.states[c].spawned <=> w.states[c].spawned
        /\ w.states[c].spawnPhase2Sent => v.states[c].spawnPhase2Sent
  BY <1>5, <1>6
<1>9. WorldOK(v, n)
  BY <1>1, <1>5, <1>6, <1>8 DEF WorldOK
<1>10. Matching(v)
  <2>1. \A c \in SpawnedIn(w) : ActorsOf(v, c) = ActorsOf(w, c)
    BY <1>7, <1>8 DEF ActorsOf
  <2> QED
    BY <1>6, <1>7, <2>1 DEF Good, Matching
<1>11. Calm(v)
  BY <1>6 DEF Good, Calm
<1>12. Listing(v, twice)
  <2>1. UuidsIn(v) = UuidsIn(w)
    BY <1>7, <1>8 DEF UuidsIn
  <2> QED
    BY <1>6, <1>7, <2>1 DEF Good, Listing
<1> QED
  BY <1>5, <1>6, <1>7, <1>9, <1>10, <1>11, <1>12 DEF IsStored

LEMMA MovementGood ==
  ASSUME NEW w, NEW n, NEW twice, NEW p \in DOMAIN w.states,
         WorldOK(w, n), Matching(w), Calm(w), Listing(w, twice),
         \A c, d \in SpawnedIn(w) :
           c # d /\ d # p =>
             Distance(w.pictures[c].actors[w.states[d].entityId], playerPosition(w.states[d]))
               <= Epsilon * w.states[d].authInputCount
  PROVE  Good(broadcastMovement(w, p), n, twice)
<1> DEFINE s == w.states[p]
           t == [c \in Players |-> MovePlayer(w.pictures[c], s)]
           new == ToOthers(w, p, t)
<1>1. /\ w \in Worlds
      /\ SpawnedIn(w) \subseteq Players /\ SpawnedIn(w) \subseteq DOMAIN w.states
      /\ s \in SessionType
      /\ \A c \in Players : w.pictures[c] \in PictureType
  BY SpawnedInFacts DEF WorldOK, Worlds
<1>2. CASE ~w.states[p].spawned
  <2>1. p \notin SpawnedIn(w)
    BY <1>2 DEF SpawnedIn
  <2>2. Close(w)
    BY <2>1 DEF Close
  <2> QED
    BY <1>2, <2>2 DEF Good, broadcastMovement
<1>3. CASE w.states[p].spawned
  <2>1. broadcastMovement(w, p) = new
    BY <1>3 DEF broadcastMovement
  <2>2. p \in SpawnedIn(w)
    BY <1>3 DEF SpawnedIn
  <2>3. \A c \in SpawnedIn(w) \ {p} : s.entityId \in DOMAIN w.pictures[c].actors
    BY <2>2 DEF Matching, ActorsOf
  <2>4. \A c \in SpawnedIn(w) \ {p} :
          /\ t[c] = MovePlayer(w.pictures[c], s)
          /\ t[c] \in PictureType
    BY <1>1, MovePlayerFacts
  <2>5. /\ new \in Worlds
        /\ new.states = w.states
        /\ SpawnedIn(new) = SpawnedIn(w)
        /\ \A c \in SpawnedIn(w) \ {p} : new.pictures[c] = MovePlayer(w.pictures[c], s)
        /\ \A c \in Players : c \notin SpawnedIn(w) \/ c = p
                                => new.pictures[c] = w.pictures[c]
    <3> HIDE DEF t
    <3> QED
      BY <1>1, <2>4, ToOthersFacts
  <2> HIDE DEF new, t
  <2>6. \A c \in SpawnedIn(w) \ {p} :
          /\ DOMAIN new.pictures[c].actors = DOMAIN w.pictures[c].actors
          /\ new.pictures[c].actors[s.entityId] = playerPosition(s)
          /\ \A e \in DOMAIN w.pictures[c].actors \ {s.entityId} :
               new.pictures[c].actors[e] = w.pictures[c].actors[e]
          /\ new.pictures[c].listed = w.pictures[c].listed
          /\ ~new.pictures[c].confused
    <3> TAKE c \in SpawnedIn(w) \ {p}
    <3>1. w.pictures[c] \in PictureType /\ ~w.pictures[c].confused
      BY <1>1 DEF Calm
    <3>2. new.pictures[c] = MovePlayer(w.pictures[c], s) /\ s.entityId \in DOMAIN w.pictures[c].actors
      BY <2>3, <2>5
    <3> DEFINE m == MovePlayer(w.pictures[c], s)
    <3>3. /\ m.actors = [e \in DOMAIN w.pictures[c].actors |->
                           IF e = s.entityId THEN playerPosition(s) ELSE w.pictures[c].actors[e]]
          /\ m.listed = w.pictures[c].listed
          /\ m.confused = (w.pictures[c].confused \/ s.entityId \notin DOMAIN w.pictures[c].actors)
      BY <1>1, <3>1, MovePlayerFacts
    <3> HIDE DEF m, s
    <3>4. ~m.confused
      BY <3>1, <3>2, <3>3
    <3> QED
      BY <3>2, <3>3, <3>4 DEF m
  <2>7. WorldOK(new, n)
    BY <2>5 DEF WorldOK
  <2>8. Matching(new)
    <3>1. \A c \in SpawnedIn(w) : DOMAIN new.pictures[c].actors = DOMAIN w.pictures[c].actors
      BY <1>1, <2>5, <2>6
    <3>2. \A c \in SpawnedIn(w) : ActorsOf(new, c) = ActorsOf(w, c)
      BY <2>5 DEF ActorsOf
    <3> QED
      BY <2>5, <3>1, <3>2 DEF Matching
  <2>9. Calm(new)
    BY <2>5, <2>6 DEF Calm
  <2>10. Listing(new, twice)
    <3>1. \A c \in SpawnedIn(w) : new.pictures[c].listed = w.pictures[c].listed
      BY <1>1, <2>5, <2>6
    <3> QED
      BY <2>5, <3>1 DEF Listing, UuidsIn
  <2>11. Close(new)
    <3> SUFFICES ASSUME NEW c \in SpawnedIn(w), NEW d \in SpawnedIn(w), c # d
                 PROVE  Distance(new.pictures[c].actors[w.states[d].entityId],
                                 playerPosition(w.states[d]))
                          <= Epsilon * w.states[d].authInputCount
      BY <2>5 DEF Close
    <3>1. CASE d = p
      <4>1. playerPosition(s) \in Int
        BY <1>1, PositionType, MultiplayerAssumption
      <4> QED
        BY <1>1, <2>6, <3>1, <4>1, NoDrift
    <3>2. CASE d # p /\ c = p
      BY <1>1, <2>5, <3>2
    <3>3. CASE d # p /\ c # p
      <4>1. w.states[d].entityId # s.entityId
        BY <1>1, <3>3 DEF WorldOK
      <4>2. w.states[d].entityId \in DOMAIN w.pictures[c].actors
        BY DEF Matching, ActorsOf
      <4> QED
        BY <2>6, <3>3, <4>1, <4>2
    <3> QED
      BY <3>1, <3>2, <3>3
  <2> QED
    BY <2>1, <2>7, <2>8, <2>9, <2>10, <2>11 DEF Good
<1> QED
  BY <1>2, <1>3

LEMMA InputGood ==
  ASSUME NEW w, NEW n, NEW twice, NEW p \in DOMAIN w.states, Good(w, n, twice),
         NEW pos \in Positions
  PROVE  Good(handlePlayerAuthInput(w, p, pos), n, twice)
<1> DEFINE released == IF w.states[p].spawnSequenceSent THEN sendSpawnSequencePhase2(w, p) ELSE w
           s == released.states[p]
           s2 == [s EXCEPT !.pos = pos, !.receivedAuthInput = TRUE,
                           !.authInputCount = (@ + 1) % Interval]
           stored == [released EXCEPT !.states = [released.states EXCEPT ![p] = s2]]
<1>1. /\ Good(released, n, twice)
      /\ DOMAIN released.states = DOMAIN w.states
      /\ s.pos = w.states[p].pos
      /\ s.receivedAuthInput = w.states[p].receivedAuthInput
      /\ s.authInputCount = w.states[p].authInputCount
  BY Phase2Good
<1>2. handlePlayerAuthInput(w, p, pos)
        = IF Forwarded(w.states[p], pos) THEN broadcastMovement(stored, p) ELSE stored
  BY DEF handlePlayerAuthInput
<1> HIDE DEF released
<1>3. s \in SessionType /\ released \in Worlds
  BY <1>1, SpawnedInFacts DEF Good, WorldOK
<1>4. /\ s2 \in SessionType
      /\ s2.entityId = s.entityId /\ s2.identityUUID = s.identityUUID
      /\ s2.spawned <=> s.spawned
      /\ s.spawnPhase2Sent => s2.spawnPhase2Sent
      /\ s2.authInputCount = (s.authInputCount + 1) % Interval
      /\ playerPosition(s2) = pos
  BY <1>3, InputSession
<1> HIDE DEF s2
<1>5. /\ WorldOK(stored, n) /\ Matching(stored) /\ Calm(stored) /\ Listing(stored, twice)
      /\ stored.pictures = released.pictures /\ stored.states[p] = s2
      /\ DOMAIN stored.states = DOMAIN released.states
      /\ \A c \in DOMAIN released.states \ {p} : stored.states[c] = released.states[c]
      /\ SpawnedIn(stored) = SpawnedIn(released)
  <2>1. PICK v : v = stored
    OBVIOUS
  <2>2. v = [released EXCEPT !.states = [released.states EXCEPT ![p] = s2]]
    BY <2>1
  <2> HIDE DEF stored
  <2>3. p \in DOMAIN released.states
    BY <1>1
  <2>4. IsStored(v, released, p, s2, n, twice)
    BY <1>1, <1>4, <2>2, <2>3, StoredFacts
  <2> QED
    BY <2>1, <2>4 DEF IsStored
<1> HIDE DEF stored
<1>6. \A c, d \in SpawnedIn(stored) :
        c # d /\ d # p =>
          Distance(stored.pictures[c].actors[stored.states[d].entityId],
                   playerPosition(stored.states[d]))
            <= Epsilon * stored.states[d].authInputCount
  <2>1. SpawnedIn(released) \subseteq DOMAIN released.states
    BY <1>3, SpawnedInFacts
  <2> QED
    BY <1>1, <1>5, <2>1 DEF Good, Close
<1>7. CASE Forwarded(w.states[p], pos)
  BY <1>1, <1>2, <1>5, <1>6, <1>7, MovementGood
<1>8. CASE ~Forwarded(w.states[p], pos)
  <2>1. /\ s.receivedAuthInput
        /\ ~(Distance(pos, s.pos) > Epsilon)
        /\ (s.authInputCount + 1) % Interval # 0
    BY <1>1, <1>8 DEF Forwarded
  <2>2. s.authInputCount \in 0..(Interval - 1) /\ s.pos \in Positions
    BY <1>3 DEF SessionType
  <2>3. s2.authInputCount = s.authInputCount + 1
    BY <1>4, <2>1, <2>2, NextCount
  <2>4. playerPosition(s) = s.pos
    BY <2>1 DEF playerPosition
  <2>5. s.pos \in Int /\ pos \in Int /\ Epsilon \in Nat /\ s.authInputCount \in Nat
    BY <2>2, MultiplayerAssumption
  <2>6. Distance(pos, s.pos) <= Epsilon
    BY <2>1, <2>5 DEF Distance
  <2>7. ASSUME NEW c \in SpawnedIn(released), p \in SpawnedIn(released), c # p
        PROVE  Distance(released.pictures[c].actors[s2.entityId], pos)
                 <= Epsilon * s2.authInputCount
    <3> DEFINE shown == released.pictures[c].actors[s.entityId]
    <3>1. Distance(shown, s.pos) <= Epsilon * s.authInputCount
      BY <1>1, <2>4, <2>7 DEF Good, Close
    <3>2. shown \in Int
      <4>1. s.entityId \in DOMAIN released.pictures[c].actors
        BY <1>1, <2>7 DEF Good, Matching, ActorsOf
      <4>2. c \in Players
        BY <1>3, SpawnedInFacts
      <4>3. released.pictures[c].actors \in Actors
        BY <1>3, <4>2 DEF Worlds, PictureType
      <4> QED
        BY <4>1, <4>3, ActorsFacts, MultiplayerAssumption
    <3> HIDE DEF shown, s
    <3>3. Distance(shown, pos) <= Epsilon * (s.authInputCount + 1)
      BY <2>5, <2>6, <3>1, <3>2, Drift
    <3> QED
      BY <1>4, <2>3, <3>3 DEF shown
  <2>8. Close(stored)
    BY <1>4, <1>5, <1>6, <2>7 DEF Close
  <2> QED
    BY <1>2, <1>5, <1>8, <2>8 DEF Good
<1> QED
  BY <1>7, <1>8

\* Nobody is shown the arm of an actor they do not have.
LEMMA AnimateGood ==
  ASSUME NEW w, NEW n, NEW twice, NEW p \in DOMAIN w.states, Good(w, n, twice)
  PROVE  Good(handleAnimate(w, p), n, twice)
<1> DEFINE s == w.states[p]
           t == [c \in Players |-> Animate(w.pictures[c], s)]
           new == ToOthers(w, p, t)
<1>1. /\ w \in Worlds
      /\ SpawnedIn(w) \subseteq Players /\ SpawnedIn(w) \subseteq DOMAIN w.states
      /\ s \in SessionType
      /\ \A c \in Players : w.pictures[c] \in PictureType
  BY SpawnedInFacts DEF Good, WorldOK, Worlds
<1>2. CASE ~w.states[p].spawned
  BY <1>2 DEF handleAnimate
<1>3. CASE w.states[p].spawned
  <2>1. handleAnimate(w, p) = new
    BY <1>3 DEF handleAnimate
  <2>2. p \in SpawnedIn(w)
    BY <1>3 DEF SpawnedIn
  <2>3. \A c \in SpawnedIn(w) \ {p} : s.entityId \in DOMAIN w.pictures[c].actors
    BY <2>2 DEF Good, Matching, ActorsOf
  <2>4. \A c \in SpawnedIn(w) \ {p} : t[c] = Animate(w.pictures[c], s) /\ t[c] \in PictureType
    BY <1>1, AnimateFacts
  <2>5. /\ new \in Worlds
        /\ new.states = w.states
        /\ SpawnedIn(new) = SpawnedIn(w)
        /\ \A c \in SpawnedIn(w) \ {p} : new.pictures[c] = Animate(w.pictures[c], s)
        /\ \A c \in Players : c \notin SpawnedIn(w) \/ c = p
                                => new.pictures[c] = w.pictures[c]
    <3> HIDE DEF t
    <3> QED
      BY <1>1, <2>4, ToOthersFacts
  <2> HIDE DEF new, t
  <2>6. \A c \in Players :
          /\ new.pictures[c].actors = w.pictures[c].actors
          /\ new.pictures[c].listed = w.pictures[c].listed
          /\ ~new.pictures[c].confused
    <3> TAKE c \in Players
    <3>1. w.pictures[c] \in PictureType /\ ~w.pictures[c].confused
      BY <1>1 DEF Good, Calm
    <3>2. CASE c \in SpawnedIn(w) \ {p}
      <4> DEFINE m == Animate(w.pictures[c], s)
      <4>1. /\ m.actors = w.pictures[c].actors
            /\ m.listed = w.pictures[c].listed
            /\ m.confused = (w.pictures[c].confused \/ s.entityId \notin DOMAIN w.pictures[c].actors)
        BY <1>1, <3>1, AnimateFacts
      <4>2. ~m.confused
        BY <2>3, <3>1, <3>2, <4>1
      <4> QED
        BY <2>5, <3>2, <4>1, <4>2
    <3>3. CASE c \notin SpawnedIn(w) \/ c = p
      BY <2>5, <3>1, <3>3
    <3> QED
      BY <3>2, <3>3
  <2>7. WorldOK(new, n)
    BY <2>5 DEF Good, WorldOK
  <2>8. Matching(new)
    <3>1. \A c \in SpawnedIn(w) : ActorsOf(new, c) = ActorsOf(w, c)
      BY <2>5 DEF ActorsOf
    <3> QED
      BY <1>1, <2>5, <2>6, <3>1 DEF Good, Matching
  <2>9. Calm(new)
    BY <2>6 DEF Calm
  <2>10. Listing(new, twice)
    <3>1. UuidsIn(new) = UuidsIn(w)
      BY <2>5 DEF UuidsIn
    <3> QED
      BY <1>1, <2>5, <2>6, <3>1 DEF Good, Listing
  <2>11. Close(new)
    BY <1>1, <2>5, <2>6 DEF Good, Close
  <2> QED
    BY <2>1, <2>7, <2>8, <2>9, <2>10, <2>11 DEF Good
<1> QED
  BY <1>2, <1>3

-----------------------------------------------------------------------------
(* The invariant. *)

IInv ==
  /\ Good(Here, nextClientIndex, shared)
  /\ SharedKnown(Here, shared)
  /\ nextClientIndex \in 0..MaxSessions
  /\ shared \subseteq Uuids

LEMMA HereFacts ==
  /\ Here.states = clientStates /\ Here.pictures = picture
  /\ SpawnedIn(Here) = Spawned
BY DEF Here, SpawnedIn, Spawned, Sessions

LEMMA InvInit == Init => IInv
<1> SUFFICES ASSUME Init PROVE IInv
  OBVIOUS
<1>1. /\ clientStates = [c \in {} |-> NoPicture] /\ nextClientIndex = 0
      /\ picture = [c \in Players |-> NoPicture] /\ shared = {}
  BY DEF Init
<1>2. clientStates \in States
  <2>1. clientStates \in [{} -> SessionType]
    BY <1>1
  <2> QED
    BY <2>1, IsStates
<1>3. Here \in Worlds
  <2>1. picture \in [Players -> PictureType]
    BY <1>1, NoPictureType
  <2> QED
    BY <1>2, <2>1 DEF Here, Worlds
<1>4. DOMAIN Here.states = {} /\ SpawnedIn(Here) = {}
  BY <1>1 DEF Here, SpawnedIn
<1>5. WorldOK(Here, nextClientIndex)
  BY <1>3, <1>4 DEF WorldOK
<1>6. Calm(Here)
  BY <1>1, NoPictureType, HereFacts DEF Calm
<1>7. Matching(Here) /\ Listing(Here, shared) /\ Close(Here) /\ SharedKnown(Here, shared)
  BY <1>4 DEF Matching, Listing, Close, SharedKnown
<1> QED
  BY <1>1, <1>5, <1>6, <1>7, MultiplayerAssumption DEF IInv, Good

LEMMA BecomeInv ==
  ASSUME IInv, NEW w, Good(w, nextClientIndex, shared), Become(w)
  PROVE  IInv'
<1>1. w \in Worlds
  BY DEF Good, WorldOK
<1>2. /\ clientStates' = w.states /\ picture' = w.pictures
      /\ nextClientIndex' = nextClientIndex
      /\ shared' = shared \cup
           {u \in Uuids : \E c, d \in SpawnedIn(w) :
              c # d /\ w.states[c].identityUUID = u /\ w.states[d].identityUUID = u}
  BY DEF Become
<1>3. Here' = w
  BY <1>1, <1>2 DEF Here, Worlds
<1>4. SharedKnown(w, shared')
  <2>1. \A c \in SpawnedIn(w) : w.states[c].identityUUID \in Uuids
    BY <1>1, SpawnedInFacts DEF SessionType
  <2> QED
    BY <1>2, <2>1 DEF SharedKnown
<1>5. Good(w, nextClientIndex', shared')
  <2>1. shared \subseteq shared'
    BY <1>2
  <2>2. Listing(w, shared')
    BY <2>1 DEF Good, Listing
  <2> QED
    BY <1>2, <2>2 DEF Good
<1>6. shared' \subseteq Uuids /\ nextClientIndex' \in 0..MaxSessions
  BY <1>2 DEF IInv
<1> QED
  BY <1>3, <1>4, <1>5, <1>6 DEF IInv

LEMMA LoginInv ==
  ASSUME IInv, NEW p \in Players, NEW uuid \in Uuids, Login(p, uuid)
  PROVE  IInv'
<1> DEFINE s == NewState(2 + nextClientIndex, uuid)
<1>1. /\ p \notin Sessions /\ nextClientIndex < MaxSessions
      /\ clientStates' = [c \in Sessions \cup {p} |-> IF c = p THEN s ELSE clientStates[c]]
      /\ nextClientIndex' = nextClientIndex + 1
      /\ picture' = picture /\ shared' = shared
  BY DEF Login
<1>2. nextClientIndex \in Nat /\ MaxSessions \in Nat
  BY MultiplayerAssumption DEF IInv
<1>3. s \in SessionType
  BY <1>1, <1>2, MultiplayerAssumption DEF NewState, SessionType, EntityIds
<1>4. s.entityId = 2 + nextClientIndex /\ ~s.spawned
  BY DEF NewState
<1> HIDE DEF s
<1>5. Here \in Worlds /\ clientStates \in States
  BY HereFacts DEF IInv, Good, WorldOK, Worlds
<1>6. clientStates' \in States
  <2>1. clientStates \in [Sessions -> SessionType] /\ Sessions \in SUBSET Players
    BY <1>5, StatesFacts DEF Sessions
  <2>2. clientStates' \in [Sessions \cup {p} -> SessionType]
    BY <1>1, <1>3, <2>1
  <2> QED
    BY <2>1, <2>2, IsStates
<1>7. /\ Here' \in Worlds
      /\ Here'.states = clientStates' /\ Here'.pictures = Here.pictures
  BY <1>1, <1>5, <1>6 DEF Here, Worlds
<1>8. /\ DOMAIN clientStates' = Sessions \cup {p}
      /\ clientStates'[p] = s
      /\ \A c \in Sessions : clientStates'[c] = clientStates[c]
  BY <1>1
<1>9. SpawnedIn(Here') = SpawnedIn(Here) /\ SpawnedIn(Here) \subseteq Sessions
  BY <1>1, <1>4, <1>7, <1>8, HereFacts DEF SpawnedIn, Sessions
<1>10. \A c \in SpawnedIn(Here) : Here'.states[c] = Here.states[c]
  BY <1>7, <1>8, <1>9, HereFacts
<1>11. WorldOK(Here', nextClientIndex')
  <2>1. \A c \in Sessions :
          /\ clientStates[c].entityId < 2 + nextClientIndex
          /\ clientStates[c].entityId \in EntityIds
          /\ clientStates[c].spawned => clientStates[c].spawnPhase2Sent
    BY <1>5, HereFacts, SpawnedInFacts DEF IInv, Good, WorldOK, Sessions, SessionType
  <2>2. \A c \in DOMAIN clientStates' :
          /\ clientStates'[c].entityId < 2 + nextClientIndex'
          /\ clientStates'[c].spawned => clientStates'[c].spawnPhase2Sent
    BY <1>1, <1>2, <1>4, <1>8, <2>1 DEF EntityIds
  <2>3. \A c, d \in Sessions : clientStates[c].entityId = clientStates[d].entityId => c = d
    BY HereFacts DEF IInv, Good, WorldOK, Sessions
  <2>4. \A c, d \in DOMAIN clientStates' :
          clientStates'[c].entityId = clientStates'[d].entityId => c = d
    BY <1>2, <1>4, <1>8, <2>1, <2>3 DEF EntityIds
  <2> QED
    BY <1>7, <2>2, <2>4 DEF WorldOK
<1>12. Matching(Here') /\ Calm(Here') /\ Listing(Here', shared') /\ Close(Here')
       /\ SharedKnown(Here', shared')
  <2>1. \A c \in SpawnedIn(Here) : ActorsOf(Here', c) = ActorsOf(Here, c)
    BY <1>9, <1>10 DEF ActorsOf
  <2>2. Matching(Here')
    BY <1>7, <1>9, <2>1 DEF IInv, Good, Matching
  <2>3. Calm(Here')
    BY <1>7 DEF IInv, Good, Calm
  <2>4. UuidsIn(Here') = UuidsIn(Here)
    BY <1>9, <1>10 DEF UuidsIn
  <2>5. Listing(Here', shared')
    BY <1>1, <1>7, <1>9, <2>4 DEF IInv, Good, Listing
  <2>6. Close(Here')
    BY <1>7, <1>9, <1>10 DEF IInv, Good, Close
  <2>7. SharedKnown(Here', shared')
    BY <1>1, <1>9, <1>10 DEF IInv, SharedKnown
  <2> QED
    BY <2>2, <2>3, <2>5, <2>6, <2>7
<1>13. nextClientIndex' \in 0..MaxSessions /\ shared' \subseteq Uuids
  BY <1>1, <1>2 DEF IInv
<1> QED
  BY <1>11, <1>12, <1>13 DEF IInv, Good

LEMMA RadiusInv ==
  ASSUME IInv, NEW p \in Players, RequestChunkRadius(p)
  PROVE  IInv'
<1> DEFINE w == Here
           s == [w.states[p] EXCEPT !.spawnSequenceSent = TRUE]
           v == [w EXCEPT !.states = [w.states EXCEPT ![p] = s]]
<1>1. Good(w, nextClientIndex, shared) /\ w \in Worlds /\ p \in DOMAIN w.states
  BY HereFacts DEF IInv, Good, WorldOK, RequestChunkRadius, Sessions
<1>2. Become(v)
  BY DEF RequestChunkRadius
<1>3. w.states[p] \in SessionType
  BY <1>1, SpawnedInFacts
<1>4. /\ s \in SessionType
      /\ s.entityId = w.states[p].entityId /\ s.identityUUID = w.states[p].identityUUID
      /\ s.spawnPhase2Sent = w.states[p].spawnPhase2Sent /\ s.spawned = w.states[p].spawned
      /\ s.authInputCount = w.states[p].authInputCount
      /\ playerPosition(s) = playerPosition(w.states[p])
  BY <1>3, SessionWith
<1>5. (s.spawned <=> w.states[p].spawned)
      /\ (w.states[p].spawnPhase2Sent => s.spawnPhase2Sent)
  BY <1>3 DEF SessionType
<1> HIDE DEF s, w
<1>6. LooksSame(v, w)
  BY <1>1, <1>4, <1>5, ReplaceFacts
<1> HIDE DEF v
<1>7. Good(v, nextClientIndex, shared)
  BY <1>1, <1>6, LooksSameGood
<1> QED
  BY <1>2, <1>7, BecomeInv

LEMMA InvStep == IInv /\ [Next]_vars => IInv'
<1> SUFFICES ASSUME IInv, [Next]_vars PROVE IInv'
  OBVIOUS
<1>1. Good(Here, nextClientIndex, shared) /\ DOMAIN Here.states = Sessions
  BY HereFacts DEF IInv, Sessions
<1>2. ASSUME NEW p \in Players, NEW uuid \in Uuids, Login(p, uuid) PROVE IInv'
  BY <1>2, LoginInv
<1>3. ASSUME NEW p \in Players, RequestChunkRadius(p) PROVE IInv'
  BY <1>3, RadiusInv
<1>4. ASSUME NEW p \in Players, SetLocalPlayerAsInitialised(p) PROVE IInv'
  BY <1>1, <1>4, Phase2Good, BecomeInv DEF SetLocalPlayerAsInitialised
<1>5. ASSUME NEW p \in Players, ArmSwing(p) PROVE IInv'
  BY <1>1, <1>5, AnimateGood, BecomeInv DEF ArmSwing
<1>6. ASSUME NEW p \in Players, Disconnect(p) PROVE IInv'
  BY <1>1, <1>6, LeavesGood, BecomeInv DEF Disconnect, IInv
<1>7. ASSUME NEW p \in Active, NEW pos \in Positions, PlayerAuthInput(p, pos) PROVE IInv'
  BY <1>1, <1>7, InputGood, BecomeInv DEF PlayerAuthInput
<1>8. CASE UNCHANGED vars
  <2>1. Here' = Here
    BY <1>8 DEF vars, Here
  <2> QED
    BY <1>8, <2>1 DEF vars, IInv
<1> QED
  BY <1>2, <1>3, <1>4, <1>5, <1>6, <1>7, <1>8 DEF Next

-----------------------------------------------------------------------------
(* What follows from it. *)

LEMMA InvTypeOK == IInv => TypeOK
<1> SUFFICES ASSUME IInv PROVE TypeOK
  OBVIOUS
<1>1. Here \in Worlds
  BY DEF IInv, Good, WorldOK
<1>2. clientStates \in States /\ picture \in [Players -> PictureType]
  BY <1>1, HereFacts DEF Worlds
<1>3. clientStates \in [Sessions -> SessionType] /\ Sessions \subseteq Players
  BY <1>2, StatesFacts DEF Sessions
<1>4. \A c \in Players : picture[c].actors \in Actors
  BY <1>2 DEF PictureType
<1>5. \A c \in Players :
        /\ DOMAIN picture[c].actors \subseteq EntityIds
        /\ \A e \in DOMAIN picture[c].actors : picture[c].actors[e] \in Positions
  BY <1>4, ActorsFacts
<1>6. \A c \in Players : picture[c].listed \subseteq Uuids /\ picture[c].confused \in BOOLEAN
  BY <1>2 DEF PictureType
<1>7. DOMAIN picture = Players
  BY <1>2
<1> QED
  BY <1>3, <1>5, <1>6, <1>7 DEF TypeOK, SessionType, IInv

LEMMA InvPicture == IInv => PictureMatches
<1> SUFFICES ASSUME IInv, NEW c \in Spawned
             PROVE  DOMAIN picture[c].actors = OnlinePlayers \ {clientStates[c].entityId}
  BY DEF PictureMatches
<1>1. DOMAIN picture[c].actors = {clientStates[d].entityId : d \in Spawned \ {c}}
  BY HereFacts DEF IInv, Good, Matching, ActorsOf
<1>2. \A d \in Spawned : clientStates[d].entityId = clientStates[c].entityId => d = c
  BY HereFacts DEF IInv, Good, WorldOK, Spawned, Sessions
<1> QED
  BY <1>1, <1>2 DEF OnlinePlayers

LEMMA InvPositions == IInv => PositionsFollow
<1> SUFFICES ASSUME IInv, NEW c \in Spawned, NEW d \in Spawned,
                    clientStates[d].entityId \in DOMAIN picture[c].actors
             PROVE  Distance(picture[c].actors[clientStates[d].entityId],
                             playerPosition(clientStates[d])) <= Epsilon * (Interval - 1)
  BY DEF PositionsFollow
<1> DEFINE k == clientStates[d].authInputCount
           shown == picture[c].actors[clientStates[d].entityId]
           real == playerPosition(clientStates[d])
<1>1. c # d
  BY InvPicture DEF PictureMatches
<1>2. Distance(shown, real) <= Epsilon * k
  BY <1>1, HereFacts DEF IInv, Good, Close
<1>3. Here \in Worlds /\ clientStates[d] \in SessionType
  BY HereFacts, SpawnedInFacts DEF IInv, Good, WorldOK
<1>4. k \in 0..(Interval - 1) /\ Epsilon \in Nat /\ Interval \in Nat \ {0}
  BY <1>3, MultiplayerAssumption DEF SessionType
<1>5. shown \in Int /\ real \in Int
  <2>1. c \in Players /\ DOMAIN picture[c].actors \subseteq EntityIds
        /\ shown \in Positions
    BY InvTypeOK DEF TypeOK, Spawned
  <2> QED
    BY <1>3, <2>1, PositionType, MultiplayerAssumption
<1>6. Distance(shown, real) \in Int
  BY <1>5 DEF Distance
<1> HIDE DEF k, shown, real
<1>7. Epsilon * k <= Epsilon * (Interval - 1)
  <2>1. \A a, b, e \in Nat : a <= b => e * a <= e * b
    OBVIOUS
  <2>2. k \in Nat /\ Interval - 1 \in Nat /\ k <= Interval - 1
    BY <1>4
  <2> QED
    BY <1>4, <2>1, <2>2
<1>8. Epsilon * k \in Int /\ Epsilon * (Interval - 1) \in Int
  BY <1>4
<1>9. Distance(shown, real) <= Epsilon * (Interval - 1)
  BY <1>2, <1>6, <1>7, <1>8
<1> QED
  BY <1>9 DEF shown, real

\* Sessions, ids, positions and pictures are what they should be, whatever the
\* order in which players come, move and go.
THEOREM TypeCorrect == Spec => []TypeOK
<1>1. Init => IInv
  BY InvInit
<1>2. IInv /\ [Next]_vars => IInv'
  BY InvStep
<1>3. IInv => TypeOK
  BY InvTypeOK
<1> QED
  BY <1>1, <1>2, <1>3, PTL DEF Spec

\* For any number of players and sessions, with players leaving unspawned, coming
\* back and crossing each other: what each client was told of is who is there,
\* and nobody was ever sent a packet about an actor they did not have.
THEOREM PicturesCorrect == Spec => [](PictureMatches /\ NeverConfused)
<1>1. Init => IInv
  BY InvInit
<1>2. IInv /\ [Next]_vars => IInv'
  BY InvStep
<1>3. IInv => PictureMatches /\ NeverConfused
  <2>1. IInv => NeverConfused
    BY HereFacts DEF IInv, Good, Calm, NeverConfused
  <2> QED
    BY <2>1, InvPicture
<1> QED
  BY <1>1, <1>2, <1>3, PTL DEF Spec

\* Player lists have the entries of the players that are there, but for UUIDs
\* that two of them had at once.
THEOREM ListsCorrect == Spec => []PlayerListMatches
<1>1. Init => IInv
  BY InvInit
<1>2. IInv /\ [Next]_vars => IInv'
  BY InvStep
<1>3. IInv => PlayerListMatches
  BY HereFacts DEF IInv, Good, Listing, UuidsIn, PlayerListMatches
<1> QED
  BY <1>1, <1>2, <1>3, PTL DEF Spec

\* Movements too small to be forwarded cannot add up to more than Interval - 1
\* times the threshold, 0.019 blocks with the 0.001 and 20 of the code.
THEOREM PositionsCorrect == Spec => []PositionsFollow
<1>1. Init => IInv
  BY InvInit
<1>2. IInv /\ [Next]_vars => IInv'
  BY InvStep
<1>3. IInv => PositionsFollow
  BY InvPositions
<1> QED
  BY <1>1, <1>2, <1>3, PTL DEF Spec
=============================================================================
