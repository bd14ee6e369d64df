SPECIFICATION Spec
CONSTANTS
  Chunks <- MCChunks
  Fragile <- MCFragile
  Walk <- MCWalk
  Radius = 1
  Header = 2
  Body = 2
  MaxCrashes = 2
  MaxFaults = 1
  Blocks = 20
INVARIANTS
  TypeOK
  WindowHeld
  NothingStale
  SavedAsSent
  LevelDatKept
  UnfinishedNotTrusted
  ServesWithDatabase
CHECK_DEADLOCK FALSE
