SPECIFICATION Spec
CONSTANTS
  Lens = {1, 4, 5, 8, 10}
  ChunkSizes = {1, 3, 6}
  Cap = 4
  PageSize = 2
  BlockPages = 2
  NBlocks = 4
  SizeMod = 16
  Faults = {"read", "write", "erase", "verify"}
  MaxFetches = 2
INVARIANTS
  TypeOK
  BufferedFileIntact
  HeaderMeansComplete
  FlushedInOrder
  CrcMatchMeansStored
