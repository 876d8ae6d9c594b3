CONSTANTS
  POOL_SIZE = 16
  CMD_BUF_SIZE = 4
  COMMAND_HISTORY_SIZE = 3
  MAX_ARGS = 2
  Printable = {97, 32}
  Commands <- CommandsA
  MaxLines = 4
  Builtins <- BuiltinsE
  TERMINAL_WIDTH_CHARS = 20
  TERMINAL_HEIGHT_CHARS = 3
  FB_HEIGHT = 768
  CpuCount = 1
  MaxScrolls = 3
SPECIFICATION Spec
INVARIANTS
  TypeOK
  ArgvAreWords
  CursorOnGrid
  PoolBlocksDisjoint
  HistoryIsLastLines
