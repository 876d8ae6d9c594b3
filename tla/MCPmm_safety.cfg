CONSTANTS
  MaxOrder = 2
  Regions <- MCRegionsMixed
  AllocOrders = {0, 1, 2}
  MaxRequestPages = 25600
  AllocSizes = {0, 4096, 12288}
  SeedLists = TRUE
SPECIFICATION Spec
INVARIANTS
  TypeOK
  NoOverlap
  FreeBlocksAligned
PROPERTIES
  RefinesFrameAllocator
