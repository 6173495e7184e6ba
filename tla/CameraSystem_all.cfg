CONSTANTS
  EnvFaults = {"init", "nvs", "vsync", "open"}
  MaxDisturbances = 1
  MaxCommands = 2
  MaxQueue = 2
  WebSizes = {1}
SPECIFICATION FairSpec
INVARIANTS
  TypeOK
  PhotoMutexSurvives
  PhotoIsOfItsSize
  FormatIsUsers
  RecordingFileSafe
  SpinEndsUnlessDeleted
PROPERTIES
  CommandsCarriedOut
CHECK_DEADLOCK FALSE
