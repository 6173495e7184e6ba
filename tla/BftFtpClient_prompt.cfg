CONSTANTS
  MaxLen = 2
  MaxPos = 2
  MaxUploads = 1
  SeqMod = 2
  Sessions = {1}
  MaxOffset = 2
  LinkCap = 2
  Faults = {"nak", "badSession", "oddOpcode"}
  Lossy = TRUE
  knMaxAttempts = 2
  AsyncCap = 1
  MaxFetches = 1
  Prompt = TRUE
SPECIFICATION Spec
INVARIANTS ChunkMatchesOffset AckedMeansStored
CHECK_DEADLOCK FALSE
