-------------------------- MODULE ChunkStreaming --------------------------
(***************************************************************************)
(* The chunks around a player: what phase 2 of the spawn sequence sends,   *)
(* what streamChunksAround() sends as the player walks, and what the       *)
(* database of WorldStorage has of it.  One session and its client; the    *)
(* packets arrive whole and in order (SendPath).                           *)
(*                                                                         *)
(* As in Multiplayer, this is the code with the early return in            *)
(* sendSpawnSequencePhase2() taken out.                                    *)
(***************************************************************************)
EXTENDS WorldStorage

CONSTANTS Walk,    \* the chunks the player's input can be in
          Radius   \* kSentChunkRadius, 4

VARIABLES spawned,            \* the session is there and has its chunks
          lastChunk,          \* lastChunkX, lastChunkZ
          sentChunks,
          held,               \* the client: chunk -> payload
          unsaved             \* history: chunks sent whose save failed

session == <<spawned, lastChunk, sentChunks>>
client  == <<held, unsaved>>
vars    == <<storage, session, client>>

Origin == <<0, 0>>
Near(a, b)  == b - a \in -Radius..Radius
Window(at)  == {c \in Chunks : Near(at[1], c[1]) /\ Near(at[2], c[2])}

ASSUME StreamingAssumption ==
  /\ Radius \in Nat /\ Walk \subseteq Int \X Int
  /\ Chunks = {<<at[1] + dx, at[2] + dz>> :
                 at \in Walk \cup {Origin}, dx \in -Radius..Radius, dz \in -Radius..Radius}

NoChunks == [c \in {} |-> "current"]

TypeOK ==
  /\ StorageTypeOK
  /\ spawned \in BOOLEAN
  /\ lastChunk \in Walk \cup {Origin}
  /\ sentChunks \subseteq Chunks
  /\ DOMAIN held \subseteq Chunks
  /\ \A c \in DOMAIN held : held[c] \in {"current", "stale"}
  /\ unsaved \subseteq Chunks

NoSession ==
  /\ spawned' = FALSE /\ lastChunk' = Origin
  /\ sentChunks' = {} /\ held' = NoChunks

Init ==
  /\ StorageInit
  /\ spawned = FALSE /\ lastChunk = Origin
  /\ sentChunks = {} /\ held = NoChunks /\ unsaved = {}

-----------------------------------------------------------------------------
(* Sending a chunk *)

\* Mutant: the answer of the database is sent, an empty one included.
Unchecked(payload) == TRUE

\* Mutant: a payload of an older version is as good as any.
Anything(payload) == payload # "absent"

\* Stale payloads begin with a populated sub-chunk, current ones with an empty
\* one at the lowest index.
isCurrentPayloadFormat(payload) == payload = "current"

Sent(c, failing) ==
  LET loaded == tryLoadChunkRaw(c, failing)
  IN  IF isCurrentPayloadFormat(loaded) THEN loaded ELSE "current"

Generated(C, failing) ==
  {c \in C : ~isCurrentPayloadFormat(tryLoadChunkRaw(c, failing))}

\* Mutant: only chunks that had no payload are saved.
SavesNew(C, failing) ==
  /\ saveChunkRaw({c \in C : tryLoadChunkRaw(c, failing) = "absent"}, failing)
  /\ unsaved' = (unsaved \ C) \cup
       {c \in Generated(C, failing) : ~g_db \/ c \in failing}
  /\ UNCHANGED durable

\* sendLevelChunk() for the chunks C: load, or generate and save over.
sendLevelChunk(C, failing) ==
  /\ saveChunkRaw(Generated(C, failing), failing)
  /\ unsaved' = (unsaved \ C) \cup
       {c \in Generated(C, failing) : ~g_db \/ c \in failing}
  /\ UNCHANGED durable

\* The client unloads what is outside of the window it is told of, then gets C.
Receives(at, C, failing) ==
  held' = [c \in (DOMAIN held \cap Window(at)) \cup C |->
             IF c \in C THEN Sent(c, failing) ELSE held[c]]

\* LevelDB may fail on some of the chunks.
Failing(failing) ==
  IF failing = {} THEN UNCHANGED budget ELSE Fault /\ UNCHANGED crashes

Elsewhere == UNCHANGED <<folder, levelDat, database, unsynced, process>>

-----------------------------------------------------------------------------
(* Actions *)

\* A new session spawns: the window around the origin, whatever its position.
sendSpawnSequencePhase2(failing) ==
  /\ phase = "serving" /\ ~spawned
  /\ Failing(failing)
  /\ spawned' = TRUE /\ lastChunk' = Origin
  /\ sentChunks' = Window(Origin)
  /\ Receives(Origin, Window(Origin), failing)
  /\ sendLevelChunk(Window(Origin), failing)
  /\ Elsewhere

\* Mutant: chunks that left the window are remembered as sent.
NeverForgets(at, due, failing) ==
  /\ spawned /\ (at # lastChunk \/ due)
  /\ Failing(failing)
  /\ lastChunk' = at
  /\ LET missing == Window(at) \ sentChunks
     IN  /\ Receives(at, missing, failing)
         /\ sendLevelChunk(missing, failing)
  /\ sentChunks' = sentChunks \cup Window(at)
  /\ UNCHANGED spawned /\ Elsewhere

\* An input in chunk `at`.  `due`: 60 ticks, by the client's count, since the
\* last NetworkChunkPublisherUpdate.  Any other input changes nothing here.
streamChunksAround(at, due, failing) ==
  /\ spawned /\ (at # lastChunk \/ due)
  /\ Failing(failing)
  /\ lastChunk' = at
  /\ LET missing == Window(at) \ sentChunks
     IN  /\ Receives(at, missing, failing)
         /\ sendLevelChunk(missing, failing)
  /\ sentChunks' = (sentChunks \cup Window(at)) \cap Window(at)
  /\ UNCHANGED spawned /\ Elsewhere

Disconnect == spawned /\ NoSession /\ UNCHANGED <<storage, unsaved>>

\* The sessions end with the process.
ServerStops == Crash /\ NoSession /\ UNCHANGED unsaved

Next ==
  \/ StartUp /\ UNCHANGED <<session, client>>
  \/ Launch /\ UNCHANGED <<session, client>>
  \/ WriteBack /\ UNCHANGED <<session, client>>
  \/ ServerStops
  \/ \E failing \in SUBSET Fragile :
       \/ sendSpawnSequencePhase2(failing)
       \/ \E at \in Walk, due \in BOOLEAN : streamChunksAround(at, due, failing)
  \/ Disconnect

Spec == Init /\ [][Next]_vars

-----------------------------------------------------------------------------
(* Properties *)

\* The client has every chunk of the window it was last told of, and the server
\* knows exactly what the client has: a chunk it walked away from, and that the
\* client unloaded, is sent again when it walks back.
WindowHeld ==
  spawned => /\ DOMAIN held = sentChunks
             /\ Window(lastChunk) \subseteq sentChunks

\* No client ever gets a payload of an older version's layout, whatever was
\* saved, lost in a crash or could not be read.
NothingStale == \A c \in DOMAIN held : held[c] = "current"

\* What the client has is what the database has, unless its save failed: a stale
\* payload does not outlive its first reading.
SavedAsSent ==
  \A c \in DOMAIN held \ unsaved : g_db => saved[c] = "current"
=============================================================================
