SPECIFICATION Spec
CONSTANTS
  Lens = {5}
  ChunkSizes = {1, 2, 3}
  Cap = 4
  PageSize = 2
  BlockPages = 2
  NBlocks = 3
  SizeMod = 16
  Faults = {}
  MaxFetches = 1
INVARIANTS
  StoredFileIntact
