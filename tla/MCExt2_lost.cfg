CONSTANTS
  Names = {97, 98}
  Perms = {420}
  InodeArgs = {2, 5}
  WriteOffsets = {0, 100}
  WriteSizes = {200}
  DataByte = 7
  AllocFails = {0, 1, 2, 3, 4, 5, 6, 7}
  MaxMounts = 1
  MaxCalls = 4
SPECIFICATION Spec
INVARIANT CreatedFilesListed
CHECK_DEADLOCK FALSE
