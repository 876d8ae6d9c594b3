CONSTANTS
  Objs = {o1, o2, o3, o4}
  NULL = NULL
  MountSlots = {0, 1}
  MaxFds = 3
  MaxGen = 1
  MaxEntries = 2
  MountPaths <- MCMountPaths
  Paths <- MCPaths
  Sizes = {1}
  OpenFlags = {2, 16}
  Offsets <- MCOffsets
SYMMETRY MCSymmetry
SPECIFICATION Spec
CHECK_DEADLOCK FALSE
INVARIANTS
  TypeOK
  LookupFindsLongestMount
PROPERTIES
