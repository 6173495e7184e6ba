SPECIFICATION Spec
CONSTANTS
  Lens = {1, 2, 4, 6}
  ChunkSizes = {1, 3, 6}
  Cap = 6
  PageSize = 2
  BlockPages = 2
  NBlocks = 3
  SizeMod = 16
  Faults = {"read", "write", "verify"}
  MaxFetches = 3
PROPERTY StoringIsAtomic
