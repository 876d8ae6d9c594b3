CONSTANTS
  MaxOrder = 1
  Regions <- MCRegionsVmmSmall
  AllocOrders = {0}
  MaxRequestPages = 25600
  SeedLists = TRUE
  DeviceFrames = {1}
  AllocSizes = {4096, 8192}
  UserFlags = {{1, 2, 8}}
  MapVpns = {257, 512}
  MaxSpaces = 1
SPECIFICATION Spec
INVARIANTS
  AllocationsMapped
