SPECIFICATION FairSpec
CONSTANTS
  Clients = {c1}
  Hosts = {h}
  MaxCommands = 3
  MaxSegments = 1
  Faults = {"bind", "accept", "reset"}
INVARIANTS
  TypeOK
  EveryConnectionIsServed
  ClosedPortIsEmpty
  SocketsOutliveHandlers
PROPERTIES
  EventsAreReported
CHECK_DEADLOCK FALSE
