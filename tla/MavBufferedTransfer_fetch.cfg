SPECIFICATION Spec
CONSTANTS
  MaxFetches = 3
  MaxLen = 2
  NoLength = NoLength
  Announcements = {0, 1, 2, NoLength}
  MaxResponses = 2
INVARIANTS
  TypeOK
  OpenFileHasPool
  StoredIsReceived
  OrdinaryUseIsSafe
CHECK_DEADLOCK FALSE
