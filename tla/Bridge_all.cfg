CONSTANTS
  Clients = {"c1"}
  NUart = 2
  NUdp = 1
  ClientKinds = {"foreign", "request"}
  MaxRead = 4
  MaxOwn = 1
SPECIFICATION FairSpec
INVARIANTS
  TypeOK
  ChunksInOrder
  StreamArrives
  SentAsComposed
PROPERTY NotificationsReturn
CHECK_DEADLOCK FALSE
