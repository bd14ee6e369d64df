----------------------- MODULE ChunkStreaming_proofs -----------------------
(***************************************************************************)
(* Proofs about ChunkStreaming and the WorldStorage under it, for every    *)
(* walk and radius, any set of saved chunks and any number of crashes and  *)
(* errors.                                                                 *)
(***************************************************************************)
EXTENDS ChunkStreaming, TLAPS

\* Before the server serves, nobody has the database; level.dat is written only
\* where there was none.
StartInv ==
  /\ phase # "serving" => lock = "free" /\ ~g_db
  /\ phase = "write" => levelDat = NoFile /\ report = "nothing"

\* There is a session, and chunks at its client, only while the server serves.
SessionInv ==
  /\ spawned => phase = "serving"
  /\ ~spawned => DOMAIN held = {}

OnDisk == LevelDatKept /\ UnfinishedNotTrusted /\ ServesWithDatabase
AtClient == WindowHeld /\ NothingStale /\ SavedAsSent

IInv == TypeOK /\ StartInv /\ SessionInv /\ OnDisk /\ AtClient

-----------------------------------------------------------------------------

LEMMA WindowInChunks == \A at : Window(at) \subseteq Chunks
BY DEF Window

LEMMA InitInv == Init => IInv
<1> SUFFICES ASSUME Init PROVE IInv
  OBVIOUS
<1>1. DOMAIN held = {}
  BY DEF Init, NoChunks
<1>2. saved \in [Chunks -> Payloads]
  <2>1. CASE saved = [c \in Chunks |-> "absent"]
    BY <2>1 DEF Payloads
  <2>2. ASSUME NEW old \in [Fragile -> Payloads],
               saved = [c \in Chunks |-> IF c \in Fragile THEN old[c] ELSE "absent"]
        PROVE  saved \in [Chunks -> Payloads]
    BY <2>2 DEF Payloads
  <2>3. QED
    BY <2>1, <2>2 DEF Init, StorageInit
<1>3. levelDat \in Parts \cup {NoFile, Foreign}
  <2>1. Whole \in Parts
    BY StorageAssumption DEF Parts, Whole
  <2>2. QED
    BY <2>1 DEF Init, StorageInit
<1>4. TypeOK
  <2>1. StorageTypeOK
    <3>1. folder \in BOOLEAN /\ database \in BOOLEAN
      BY DEF Init, StorageInit
    <3>2. /\ durable = saved /\ found = levelDat /\ unsynced = FALSE /\ phase = "begin" /\ lock = "free"
          /\ g_db = FALSE /\ report = "nothing" /\ refused = FALSE /\ crashes = 0 /\ faults = 0
      BY DEF Init, StorageInit
    <3>3. 0 \in 0..MaxCrashes /\ 0 \in 0..MaxFaults
      BY StorageAssumption
    <3>4. QED
      BY <1>2, <1>3, <3>1, <3>2, <3>3 DEF StorageTypeOK
  <2>2. QED
    BY <1>1, <2>1 DEF Init, TypeOK
<1>5. StartInv /\ SessionInv /\ OnDisk
  BY <1>1 DEF Init, StorageInit, StartInv, SessionInv, OnDisk, LevelDatKept, UnfinishedNotTrusted,
              ServesWithDatabase
<1>6. AtClient
  BY <1>1 DEF Init, AtClient, WindowHeld, NothingStale, SavedAsSent
<1>7. QED
  BY <1>4, <1>5, <1>6 DEF IInv

\* A step of the server before it serves, or of its machine, that ends no session.
LEMMA SessionKept ==
  ASSUME IInv, UNCHANGED <<session, client, saved>>,
         spawned => phase' = "serving" /\ g_db' = g_db
  PROVE  /\ spawned' \in BOOLEAN /\ lastChunk' \in Walk \cup {Origin} /\ sentChunks' \subseteq Chunks
         /\ DOMAIN held' \subseteq Chunks /\ \A c \in DOMAIN held' : held'[c] \in {"current", "stale"}
         /\ unsaved' \subseteq Chunks
         /\ SessionInv' /\ AtClient'
<1>1. UNCHANGED <<spawned, lastChunk, sentChunks, held, unsaved, saved>>
  BY DEF session, client
<1>2. TypeOK /\ SessionInv /\ AtClient
  BY DEF IInv
<1>3. SessionInv'
  BY <1>1, <1>2 DEF SessionInv
<1>4. WindowHeld' /\ NothingStale'
  BY <1>1, <1>2 DEF AtClient, WindowHeld, NothingStale
<1>5. SavedAsSent'
  BY <1>1, <1>2 DEF AtClient, SavedAsSent, SessionInv
<1>6. QED
  BY <1>1, <1>2, <1>3, <1>4, <1>5 DEF AtClient, TypeOK

LEMMA FaultCounted ==
  ASSUME StorageTypeOK, Fault
  PROVE  faults' \in 0..MaxFaults /\ faults' # 0
BY StorageAssumption DEF StorageTypeOK, Fault

LEMMA StartUpStep ==
  ASSUME IInv, StartUp, UNCHANGED <<session, client>>
  PROVE  IInv'
<1>1. /\ StorageTypeOK /\ StartInv /\ SessionInv
      /\ LevelDatKept /\ UnfinishedNotTrusted /\ ServesWithDatabase
  BY DEF IInv, TypeOK, OnDisk
<1>2. StorageTypeOK'
  <2>1. CASE Begin
    BY <1>1, <2>1 DEF Begin, main, StorageTypeOK, disk, budget
  <2>2. CASE scanAndReportWorldChunkKeys
    BY <1>1, <2>2 DEF scanAndReportWorldChunkKeys, main, StorageTypeOK, disk, budget
  <2>3. CASE openOrCreateWorld
    BY <1>1, <2>3 DEF openOrCreateWorld, StorageTypeOK, budget
  <2>4. CASE writeLevelDat
    <3>1. Whole \in Parts
      BY StorageAssumption DEF Parts, Whole
    <3>2. QED
      BY <1>1, <2>4, <3>1, FaultCounted DEF writeLevelDat, StorageTypeOK, budget
  <2>5. CASE openDatabase
    BY <1>1, <2>5, FaultCounted DEF openDatabase, main, StorageTypeOK, budget
  <2>6. QED
    BY <2>1, <2>2, <2>3, <2>4, <2>5 DEF StartUp
<1>3. StartInv' /\ LevelDatKept' /\ UnfinishedNotTrusted' /\ ServesWithDatabase'
  <2>1. CASE Begin
    BY <1>1, <2>1 DEF Begin, main, disk, budget, StartInv, LevelDatKept, UnfinishedNotTrusted, ServesWithDatabase
  <2>2. CASE scanAndReportWorldChunkKeys
    BY <1>1, <2>2 DEF scanAndReportWorldChunkKeys, main, disk, budget, StartInv, LevelDatKept,
                      UnfinishedNotTrusted, ServesWithDatabase
  <2>3. CASE openOrCreateWorld
    <3>1. report' = "found" => levelDat.size >= Header + Body
      <4>1. levelDat \in Parts \cup {NoFile, Foreign}
        BY <1>1 DEF StorageTypeOK
      <4>2. readLevelDat(levelDat) => levelDat.size >= Header + Body
        BY <4>1, StorageAssumption DEF readLevelDat, Parts, NoFile, Foreign
      <4>3. QED
        BY <2>3, <4>2 DEF openOrCreateWorld
    <3>2. QED
      BY <1>1, <2>3, <3>1 DEF openOrCreateWorld, worldFolderExists, budget, StartInv, LevelDatKept,
                              UnfinishedNotTrusted, ServesWithDatabase
  <2>4. CASE writeLevelDat
    BY <1>1, <2>4 DEF writeLevelDat, StartInv, LevelDatKept, UnfinishedNotTrusted, ServesWithDatabase
  <2>5. CASE openDatabase
    BY <1>1, <2>5, FaultCounted DEF openDatabase, main, budget, StartInv, LevelDatKept,
                                    UnfinishedNotTrusted, ServesWithDatabase
  <2>6. QED
    BY <2>1, <2>2, <2>3, <2>4, <2>5 DEF StartUp
<1>4. saved' = saved /\ ~spawned
  BY <1>1 DEF StartUp, Begin, scanAndReportWorldChunkKeys, openOrCreateWorld, writeLevelDat, openDatabase,
              disk, SessionInv
<1>5. QED
  BY <1>2, <1>3, <1>4, SessionKept DEF IInv, TypeOK, OnDisk

LEMMA LaunchStep ==
  ASSUME IInv, Launch, UNCHANGED <<session, client>>
  PROVE  IInv'
<1>1. /\ StorageTypeOK /\ StartInv /\ SessionInv
      /\ LevelDatKept /\ UnfinishedNotTrusted /\ ServesWithDatabase
  BY DEF IInv, TypeOK, OnDisk
<1>2. StorageTypeOK'
  BY <1>1 DEF Launch, StorageTypeOK, disk, budget
<1>3. StartInv' /\ LevelDatKept' /\ UnfinishedNotTrusted' /\ ServesWithDatabase'
  BY <1>1 DEF Launch, disk, budget, StartInv, LevelDatKept, UnfinishedNotTrusted, ServesWithDatabase
<1>4. saved' = saved /\ ~spawned
  BY <1>1 DEF Launch, disk, SessionInv
<1>5. QED
  BY <1>2, <1>3, <1>4, SessionKept DEF IInv, TypeOK, OnDisk

LEMMA WriteBackStep ==
  ASSUME IInv, WriteBack, UNCHANGED <<session, client>>
  PROVE  IInv'
<1>1. /\ StorageTypeOK /\ StartInv /\ SessionInv
      /\ LevelDatKept /\ UnfinishedNotTrusted /\ ServesWithDatabase
  BY DEF IInv, TypeOK, OnDisk
<1>2. StorageTypeOK'
  BY <1>1 DEF WriteBack, StorageTypeOK, process, budget
<1>3. StartInv' /\ LevelDatKept' /\ UnfinishedNotTrusted' /\ ServesWithDatabase'
  BY <1>1 DEF WriteBack, process, budget, StartInv, LevelDatKept, UnfinishedNotTrusted, ServesWithDatabase
<1>4. /\ saved' = saved /\ phase' = phase /\ g_db' = g_db
      /\ spawned => phase = "serving"
  BY <1>1 DEF WriteBack, process, SessionInv
<1>5. QED
  BY <1>2, <1>3, <1>4, SessionKept DEF IInv, TypeOK, OnDisk

\* No session outlives its server.
LEMMA StopStep ==
  ASSUME IInv, ServerStops
  PROVE  IInv'
<1>1. /\ StorageTypeOK /\ StartInv /\ unsaved \subseteq Chunks
      /\ LevelDatKept /\ UnfinishedNotTrusted /\ ServesWithDatabase
  BY DEF IInv, TypeOK, OnDisk
<1>2. /\ Crash /\ spawned' = FALSE /\ lastChunk' = Origin /\ sentChunks' = {}
      /\ DOMAIN held' = {} /\ unsaved' = unsaved
  BY DEF ServerStops, NoSession, NoChunks
<1>3. PICK lost \in SUBSET {c \in Fragile : saved[c] # durable[c]} :
        saved' = [c \in Chunks |-> IF c \in lost THEN durable[c] ELSE saved[c]]
  BY <1>2 DEF Crash
<1>4. saved' \in [Chunks -> Payloads] /\ durable' = saved'
  BY <1>1, <1>2, <1>3 DEF Crash, StorageTypeOK
<1>5. levelDat' \in Parts \cup {NoFile, Foreign}
  BY <1>1, <1>2 DEF Crash, StorageTypeOK
<1>6. crashes' \in 0..MaxCrashes
  BY <1>1, <1>2, StorageAssumption DEF Crash, StorageTypeOK
<1>7. /\ phase' = "down" /\ lock' = "free" /\ g_db' = FALSE /\ report' = "nothing" /\ refused' = FALSE
      /\ unsynced' = FALSE /\ UNCHANGED <<folder, database, found, faults>>
  BY <1>2 DEF Crash, StopProcess
<1>8. TypeOK'
  <2>1. StorageTypeOK'
    BY <1>1, <1>4, <1>5, <1>6, <1>7 DEF StorageTypeOK
  <2>2. QED
    BY <1>1, <1>2, <2>1 DEF TypeOK
<1>9. StartInv' /\ SessionInv' /\ OnDisk'
  BY <1>2, <1>7 DEF StartInv, SessionInv, OnDisk, LevelDatKept, UnfinishedNotTrusted, ServesWithDatabase
<1>10. AtClient'
  BY <1>2 DEF AtClient, WindowHeld, NothingStale, SavedAsSent
<1>11. QED
  BY <1>8, <1>9, <1>10 DEF IInv

LEMMA DisconnectStep ==
  ASSUME IInv, Disconnect
  PROVE  IInv'
<1>1. /\ spawned' = FALSE /\ lastChunk' = Origin /\ sentChunks' = {} /\ DOMAIN held' = {}
      /\ UNCHANGED <<disk, process, budget, unsaved>>
  BY DEF Disconnect, NoSession, NoChunks, storage
<1>2. UNCHANGED <<folder, levelDat, database, saved, durable, unsynced, phase, lock, g_db, report, refused,
                  found, crashes, faults, unsaved>>
  BY <1>1 DEF disk, process, budget
<1>3. TypeOK'
  <2>1. StorageTypeOK'
    BY <1>2 DEF IInv, TypeOK, StorageTypeOK
  <2>2. unsaved' \subseteq Chunks
    BY <1>2 DEF IInv, TypeOK
  <2>3. QED
    BY <1>1, <2>1, <2>2 DEF TypeOK
<1>4. StartInv' /\ SessionInv' /\ OnDisk'
  BY <1>1, <1>2 DEF IInv, StartInv, SessionInv, OnDisk, LevelDatKept, UnfinishedNotTrusted, ServesWithDatabase
<1>5. AtClient'
  BY <1>1 DEF AtClient, WindowHeld, NothingStale, SavedAsSent
<1>6. QED
  BY <1>3, <1>4, <1>5 DEF IInv

-----------------------------------------------------------------------------
(* Sending chunks *)

\* Nothing but a current payload goes out, whatever the database answers.
LEMMA SentIsCurrent == \A c, failing : Sent(c, failing) = "current"
BY DEF Sent, isCurrentPayloadFormat

\* The chunks C are sent to a client whose window is around `at`.
LEMMA SendStep ==
  ASSUME IInv, phase = "serving", NEW at \in Walk \cup {Origin}, NEW failing \in SUBSET Fragile,
         NEW C \in SUBSET Chunks, Failing(failing), sendLevelChunk(C, failing), Receives(at, C, failing),
         spawned' = TRUE, lastChunk' = at, sentChunks' = Window(at),
         (DOMAIN held \cap Window(at)) \cup C = Window(at), Elsewhere
  PROVE  IInv'
<1>1. /\ StorageTypeOK /\ StartInv /\ unsaved \subseteq Chunks /\ SavedAsSent
      /\ LevelDatKept /\ UnfinishedNotTrusted /\ ServesWithDatabase
  BY DEF IInv, TypeOK, OnDisk, AtClient
<1>2. /\ UNCHANGED <<folder, levelDat, database, unsynced, phase, lock, g_db, report, refused, found>>
      /\ durable' = durable
  BY DEF Elsewhere, process, sendLevelChunk
<1>3. crashes' = crashes /\ faults' \in 0..MaxFaults /\ (faults' = 0 => faults = 0)
  <2>1. CASE UNCHANGED budget
    BY <1>1, <2>1 DEF budget, StorageTypeOK
  <2>2. CASE Fault /\ UNCHANGED crashes
    BY <1>1, <2>2, FaultCounted
  <2>3. QED
    BY <2>1, <2>2 DEF Failing
<1>4. /\ saved' = [c \in Chunks |-> IF g_db /\ c \in Generated(C, failing) \ failing THEN "current" ELSE saved[c]]
      /\ unsaved' = (unsaved \ C) \cup {c \in Generated(C, failing) : ~g_db \/ c \in failing}
      /\ Generated(C, failing) \subseteq C
  BY DEF sendLevelChunk, saveChunkRaw, Generated
<1>5. saved' \in [Chunks -> Payloads] /\ unsaved' \subseteq Chunks
  <2>1. \A c \in Chunks : saved[c] \in Payloads /\ "current" \in Payloads
    BY <1>1 DEF StorageTypeOK, Payloads
  <2>2. QED
    BY <1>1, <1>4, <2>1
<1>6. /\ DOMAIN held' = Window(at)
      /\ \A c \in DOMAIN held' : c \notin C => c \in DOMAIN held /\ held'[c] = held[c]
      /\ \A c \in C : held'[c] = "current"
  BY SentIsCurrent DEF Receives
<1>7. \A c \in DOMAIN held' : held'[c] = "current"
  BY <1>6 DEF IInv, AtClient, NothingStale
<1>8. TypeOK'
  <2>1. StorageTypeOK'
    BY <1>1, <1>2, <1>3, <1>5 DEF StorageTypeOK
  <2>2. QED
    BY <1>5, <1>6, <1>7, <2>1, WindowInChunks DEF TypeOK
<1>9. StartInv' /\ SessionInv' /\ OnDisk'
  BY <1>1, <1>2, <1>3 DEF StartInv, SessionInv, OnDisk, LevelDatKept, UnfinishedNotTrusted, ServesWithDatabase
<1>10. WindowHeld' /\ NothingStale'
  <2>1. Window(at)' = Window(at)
    BY DEF Window, Near
  <2>2. QED
    BY <1>6, <1>7, <2>1 DEF WindowHeld, NothingStale
<1>11. SavedAsSent'
  <2>1. SUFFICES ASSUME NEW c \in DOMAIN held', c \notin unsaved', g_db' PROVE saved'[c] = "current"
    BY DEF SavedAsSent
  <2>2. c \in Chunks /\ g_db
    BY <1>2, <1>6, <2>1, WindowInChunks
  <2>3. CASE c \in Generated(C, failing)
    BY <1>4, <2>1, <2>2, <2>3
  <2>4. CASE c \in C /\ c \notin Generated(C, failing)
    <3>1. tryLoadChunkRaw(c, failing) = "current"
      BY <2>4 DEF Generated, isCurrentPayloadFormat
    <3>2. saved[c] = "current"
      BY <3>1 DEF tryLoadChunkRaw
    <3>3. QED
      BY <1>4, <2>2, <3>2
  <2>5. CASE c \notin C
    <3>1. c \in DOMAIN held /\ c \notin unsaved
      BY <1>4, <1>6, <2>1, <2>5
    <3>2. saved[c] = "current"
      BY <1>1, <2>2, <3>1 DEF SavedAsSent
    <3>3. QED
      BY <1>4, <2>2, <3>2
  <2>6. QED
    BY <2>3, <2>4, <2>5
<1>12. QED
  BY <1>8, <1>9, <1>10, <1>11 DEF IInv, AtClient

LEMMA SpawnStep ==
  ASSUME IInv, NEW failing \in SUBSET Fragile, sendSpawnSequencePhase2(failing)
  PROVE  IInv'
<1>1. DOMAIN held = {} /\ phase = "serving"
  BY DEF sendSpawnSequencePhase2, IInv, SessionInv
<1>2. (DOMAIN held \cap Window(Origin)) \cup Window(Origin) = Window(Origin)
  OBVIOUS
<1>3. Window(Origin) \in SUBSET Chunks
  BY WindowInChunks
<1>4. QED
  BY <1>1, <1>2, <1>3, SendStep DEF sendSpawnSequencePhase2

LEMMA StreamStep ==
  ASSUME IInv, NEW at \in Walk, NEW due \in BOOLEAN, NEW failing \in SUBSET Fragile,
         streamChunksAround(at, due, failing)
  PROVE  IInv'
<1> DEFINE missing == Window(at) \ sentChunks
<1>1. phase = "serving" /\ DOMAIN held = sentChunks /\ spawned' = TRUE
  BY DEF streamChunksAround, IInv, SessionInv, AtClient, WindowHeld, TypeOK
<1>2. (DOMAIN held \cap Window(at)) \cup missing = Window(at)
  BY <1>1
<1>3. missing \in SUBSET Chunks /\ sentChunks' = Window(at)
  BY WindowInChunks DEF streamChunksAround
<1>4. /\ Failing(failing) /\ lastChunk' = at /\ Elsewhere
      /\ Receives(at, missing, failing) /\ sendLevelChunk(missing, failing)
  BY DEF streamChunksAround
<1> HIDE DEF missing
<1>5. QED
  BY <1>1, <1>2, <1>3, <1>4, SendStep

-----------------------------------------------------------------------------
(* The theorems *)

LEMMA IInvStep == IInv /\ [Next]_vars => IInv'
<1> SUFFICES ASSUME IInv, [Next]_vars PROVE IInv'
  OBVIOUS
<1>1. CASE UNCHANGED vars
  <2>1. UNCHANGED <<folder, levelDat, database, saved, durable, unsynced, phase, lock, g_db, report, refused,
                    found, crashes, faults, spawned, lastChunk, sentChunks, held, unsaved>>
    BY <1>1 DEF vars, storage, session, client, disk, process, budget
  <2>2. TypeOK' /\ StartInv' /\ SessionInv'
    BY <2>1 DEF IInv, TypeOK, StorageTypeOK, StartInv, SessionInv
  <2>3. OnDisk' /\ AtClient'
    BY <2>1 DEF IInv, OnDisk, AtClient, LevelDatKept, UnfinishedNotTrusted, ServesWithDatabase,
                WindowHeld, NothingStale, SavedAsSent, Window, Near
  <2>4. QED
    BY <2>2, <2>3 DEF IInv
<1>2. CASE (StartUp \/ Launch \/ WriteBack) /\ UNCHANGED <<session, client>>
  BY <1>2, StartUpStep, LaunchStep, WriteBackStep
<1>3. CASE ServerStops \/ Disconnect
  BY <1>3, StopStep, DisconnectStep
<1>4. ASSUME NEW failing \in SUBSET Fragile, sendSpawnSequencePhase2(failing) PROVE IInv'
  BY <1>4, SpawnStep
<1>5. ASSUME NEW failing \in SUBSET Fragile, NEW at \in Walk, NEW due \in BOOLEAN,
             streamChunksAround(at, due, failing)
      PROVE  IInv'
  BY <1>5, StreamStep
<1>6. QED
  BY <1>1, <1>2, <1>3, <1>4, <1>5 DEF Next

LEMMA SpecInv == Spec => []IInv
BY InitInv, IInvStep, PTL DEF Spec

\* The storage, the start of the server and the session keep their types.
THEOREM TypeCorrect == Spec => []TypeOK
<1>1. IInv => TypeOK
  BY DEF IInv
<1>2. QED
  BY <1>1, SpecInv, PTL

\* A client has all of its window, wherever it walks: streamChunksAround()
\* (PlayerAuthInput) forgets a chunk exactly when the client unloads it.
THEOREM WindowComplete == Spec => []WindowHeld
<1>1. IInv => WindowHeld
  BY DEF IInv, AtClient
<1>2. QED
  BY <1>1, SpecInv, PTL

\* What sendLevelChunk() saves over a stale, lost or unreadable payload is what the
\* client got, and an old layout is never sent.
THEOREM ChunksCurrent == Spec => [](NothingStale /\ SavedAsSent)
<1>1. IInv => NothingStale /\ SavedAsSent
  BY DEF IInv, AtClient
<1>2. QED
  BY <1>1, SpecInv, PTL

\* openOrCreateWorld() never writes over a level.dat that was there, and does not take
\* one for whole that a crash cut short.
THEOREM LevelDatSafe == Spec => [](LevelDatKept /\ UnfinishedNotTrusted)
<1>1. IInv => LevelDatKept /\ UnfinishedNotTrusted
  BY DEF IInv, OnDisk
<1>2. QED
  BY <1>1, SpecInv, PTL

\* Nothing of the server's own stands in the way of its database: neither the handle
\* of scanAndReportWorldChunkKeys() nor what the last run left behind.
THEOREM DatabaseFree == Spec => []ServesWithDatabase
<1>1. IInv => ServesWithDatabase
  BY DEF IInv, OnDisk
<1>2. QED
  BY <1>1, SpecInv, PTL
=============================================================================
