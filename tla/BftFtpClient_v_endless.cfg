CONSTANTS
  MaxLen = 1
  MaxPos = 1
  MaxUploads = 1
  SeqMod = 2
  Sessions = {1}
  MaxOffset = 1
  LinkCap = 1
  Faults = {}
  Lossy = FALSE
  knMaxAttempts = 2
  AsyncCap = 1
  MaxFetches = 0
  Prompt = TRUE
SPECIFICATION AnsweringSpec
PROPERTY SessionEnds
CHECK_DEADLOCK FALSE
