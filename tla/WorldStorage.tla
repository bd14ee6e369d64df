--------------------------- MODULE WorldStorage ---------------------------
(***************************************************************************)
(* The world on disk and the start of the server (executer.cpp,            *)
(* LBBNet/World): the folder, level.dat, and the LevelDB database that     *)
(* holds one saved payload per chunk.                                      *)
(*                                                                         *)
(* The server can stop at any point, its machine with it.  Nothing it      *)
(* writes is synced, so what it wrote since the operating system last      *)
(* wrote back may be lost: a chunk falls back to what was there before, a  *)
(* level.dat to a part of itself.  LevelDB itself is external: it recovers *)
(* after a crash, refuses a second handle, and can report an error.        *)
(***************************************************************************)
EXTENDS Integers

CONSTANTS Chunks,      \* chunk coordinates
          Fragile,     \* bound: the chunks saved before, by this version or an older one,
                       \* whose writes a crash may undo and LevelDB may fail
          Header,      \* bytes of level.dat before its NBT body, 8
          Body,        \* bytes of the body this server writes
          MaxCrashes,  \* bound: times the server stops
          MaxFaults    \* bound: errors of the file system and of LevelDB

ASSUME StorageAssumption ==
  /\ Fragile \subseteq Chunks
  /\ Header \in Nat \ {0} /\ Body \in Nat \ {0}
  /\ MaxCrashes \in Nat /\ MaxFaults \in Nat

VARIABLES folder,    \* worlds/<level-name> is there
          levelDat,  \* the file, or NoFile
          database,  \* its db folder is there
          saved,     \* chunk -> the payload under its key
          durable,   \* chunk -> the payload that outlives a crash
          unsynced,  \* level.dat was written and may still be lost
          phase,     \* where main() is
          lock,      \* who has the database open
          g_db,      \* the server has a database
          report,    \* what this start printed of level.dat
          refused,   \* history: the scan found the database locked
          found,     \* history: level.dat when this start began
          crashes, faults

disk     == <<folder, levelDat, database, saved, durable, unsynced>>
process  == <<phase, lock, g_db, report, refused, found>>
budget   == <<crashes, faults>>
storage  == <<disk, process, budget>>

Payloads == {"absent", "current", "stale"}
NoFile   == [size |-> -1, declared |-> 0]
Whole    == [size |-> Header + Body, declared |-> Body]
Foreign  == [size |-> Header + Body + 1, declared |-> Body]  \* a dropped-in world's
Parts    == {[size |-> n, declared |-> Body] : n \in 0..(Header + Body)}

StorageTypeOK ==
  /\ folder \in BOOLEAN /\ database \in BOOLEAN /\ unsynced \in BOOLEAN
  /\ levelDat \in Parts \cup {NoFile, Foreign}
  /\ saved \in [Chunks -> Payloads] /\ durable \in [Chunks -> Payloads]
  /\ phase \in {"down", "begin", "scan", "open", "write", "database", "serving"}
  /\ lock \in {"free", "scan", "server"}
  /\ g_db \in BOOLEAN /\ refused \in BOOLEAN
  /\ report \in {"nothing", "found", "unreadable"}
  /\ found \in Parts \cup {NoFile, Foreign}
  /\ crashes \in 0..MaxCrashes /\ faults \in 0..MaxFaults

\* No world, one this server made before, or one that was dropped in.
StorageInit ==
  /\ \/ /\ folder = FALSE /\ database = FALSE /\ levelDat = NoFile
        /\ saved = [c \in Chunks |-> "absent"]
     \/ /\ folder = TRUE /\ levelDat \in {Whole, Foreign} /\ database \in BOOLEAN
        /\ \E old \in [Fragile -> Payloads] :
             /\ ~database => old = [c \in Fragile |-> "absent"]
             /\ saved = [c \in Chunks |-> IF c \in Fragile THEN old[c] ELSE "absent"]
  /\ durable = saved /\ unsynced = FALSE
  /\ phase = "begin" /\ lock = "free" /\ g_db = FALSE
  /\ report = "nothing" /\ refused = FALSE /\ found = levelDat
  /\ crashes = 0 /\ faults = 0

-----------------------------------------------------------------------------
(* level.dat *)

worldFolderExists == levelDat # NoFile

\* Mutant: the length the header declares is not checked.
HeaderOnly(file) == file.size >= Header

\* readLevelDat(): valid.  A file that ends early has a body that ends early.
readLevelDat(file) == file.size >= Header /\ Header + file.declared <= file.size

-----------------------------------------------------------------------------
(* Start-up *)

Fault == faults < MaxFaults /\ faults' = faults + 1

\* What follows a step of main(): the scan is for a world that was there before.
main(step) ==
  CASE step = "begin"    -> IF found # NoFile THEN "scan" ELSE "open"
    [] step = "scan"     -> "open"
    [] step = "database" -> "serving"

Begin ==
  /\ phase = "begin" /\ phase' = main("begin")
  /\ UNCHANGED <<disk, lock, g_db, report, refused, found, budget>>

\* Mutant: its handle is never closed.
LeaksHandle ==
  /\ phase = "scan" /\ phase' = main("scan")
  /\ refused' = (database /\ lock # "free")
  /\ lock' = IF database /\ lock = "free" THEN "scan" ELSE lock
  /\ UNCHANGED <<disk, g_db, report, found, budget>>

\* Opens a handle of its own, never creating a database, reads, and closes it.
scanAndReportWorldChunkKeys ==
  /\ phase = "scan" /\ phase' = main("scan")
  /\ refused' = (database /\ lock # "free")
  /\ UNCHANGED <<disk, lock, g_db, report, found, budget>>

\* Mutant: as LevelDat.h has it, a level.dat that does not parse is written anew.
Regenerates ==
  /\ phase = "open"
  /\ folder' = TRUE
  /\ phase' = IF readLevelDat(levelDat) THEN "database" ELSE "write"
  /\ report' = "nothing"
  /\ UNCHANGED <<levelDat, database, saved, durable, unsynced, lock, g_db, refused, found, budget>>

\* openOrCreateWorld(), its first half.  A level.dat that is there is read and
\* left alone, parsed or not; makeDirectory() goes unchecked.
openOrCreateWorld ==
  /\ phase = "open"
  /\ folder' = TRUE
  /\ phase' = IF worldFolderExists THEN "database" ELSE "write"
  /\ report' = IF ~worldFolderExists THEN "nothing"
               ELSE IF readLevelDat(levelDat) THEN "found" ELSE "unreadable"
  /\ UNCHANGED <<levelDat, database, saved, durable, unsynced, lock, g_db, refused, found, budget>>

\* The file is made and filled, or cannot be opened, which goes unnoticed.
writeLevelDat ==
  /\ phase = "write" /\ phase' = "database"
  /\ \/ levelDat' = Whole /\ unsynced' = TRUE /\ UNCHANGED budget
     \/ Fault /\ UNCHANGED <<levelDat, unsynced, crashes>>
  /\ UNCHANGED <<folder, database, saved, durable, lock, g_db, report, refused, found>>

\* Its second half: created if missing, kept open until the process ends.
openDatabase ==
  /\ phase = "database" /\ phase' = main("database")
  /\ \/ /\ lock = "free"
        /\ database' = TRUE /\ lock' = "server" /\ g_db' = TRUE
        /\ UNCHANGED budget
     \/ /\ IF lock = "free" THEN Fault /\ UNCHANGED crashes ELSE UNCHANGED budget
        /\ g_db' = FALSE
        /\ UNCHANGED <<database, lock>>
  /\ UNCHANGED <<folder, levelDat, saved, durable, unsynced, report, refused, found>>

StartUp == \/ Begin \/ scanAndReportWorldChunkKeys \/ openOrCreateWorld
           \/ writeLevelDat \/ openDatabase

-----------------------------------------------------------------------------
(* Chunks, for the streaming of ChunkStreaming *)

\* tryLoadChunkRaw(): "absent" is its FALSE.
tryLoadChunkRaw(c, failing) == IF g_db /\ c \notin failing THEN saved[c] ELSE "absent"

\* saveChunkRaw(), for the chunks C.
saveChunkRaw(C, failing) ==
  saved' = [c \in Chunks |-> IF g_db /\ c \in C \ failing THEN "current" ELSE saved[c]]

-----------------------------------------------------------------------------
(* The machine *)

\* What is written back no crash can undo.
WriteBack ==
  /\ durable # saved \/ unsynced
  /\ durable' = saved /\ unsynced' = FALSE
  /\ UNCHANGED <<folder, levelDat, database, saved, process, budget>>

StopProcess ==
  /\ phase' = "down" /\ lock' = "free" /\ g_db' = FALSE
  /\ report' = "nothing" /\ refused' = FALSE

\* There is no orderly end: closeWorldStorage() is never called.
Crash ==
  /\ phase # "down" /\ crashes < MaxCrashes /\ crashes' = crashes + 1
  /\ StopProcess
  /\ \E lost \in SUBSET {c \in Fragile : saved[c] # durable[c]} :
       saved' = [c \in Chunks |-> IF c \in lost THEN durable[c] ELSE saved[c]]
  /\ durable' = saved'
  /\ levelDat' \in IF unsynced THEN Parts \cup {NoFile} ELSE {levelDat}
  /\ unsynced' = FALSE
  /\ UNCHANGED <<folder, database, found, faults>>

Launch ==
  /\ phase = "down" /\ phase' = "begin" /\ found' = levelDat
  /\ UNCHANGED <<disk, lock, g_db, report, refused, budget>>

-----------------------------------------------------------------------------
(* Properties *)

\* A level.dat that was there when the server started is as it was: neither a
\* dropped-in world's nor one that cannot be read is ever written over.
LevelDatKept == phase # "down" /\ found # NoFile => levelDat = found

\* A level.dat the last start did not finish is not taken for a whole one.
UnfinishedNotTrusted == report = "found" => levelDat.size >= Header + Body

\* LevelDB gives a database to one handle at a time.  The server has it when it
\* serves, unless an error was reported: neither the scan nor the last run, and
\* whatever it left behind, stands in its way, nor the server in the scan's.
ServesWithDatabase ==
  /\ phase = "serving" /\ faults = 0 => g_db
  /\ ~refused
=============================================================================
