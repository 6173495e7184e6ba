CONSTANTS
  MaxLen = 2
  MaxPos = 2
  MaxUploads = 1
  SeqMod = 2
  Sessions = {1}
  MaxOffset = 2
  LinkCap = 1
  Faults = {"nak"}
  Lossy = TRUE
  knMaxAttempts = 2
  AsyncCap = 1
  MaxFetches = 1
  Prompt = FALSE
SPECIFICATION FairSpec
INVARIANTS TypeOK BufferReleased CursorOrder TimerOnlyInSession ActiveSessionHasRetry
PROPERTIES ImplementsTransferSession DoomedSessionsEnd
CHECK_DEADLOCK FALSE
