CONSTANTS
  POOL_SIZE = 16
  CMD_BUF_SIZE = 6
  COMMAND_HISTORY_SIZE = 2
  MAX_ARGS = 1
  Printable = {97, 98, 32}
  Commands <- CommandsAB
  MaxLines = 3
  Builtins <- BuiltinsHC
  TERMINAL_WIDTH_CHARS = 12
  TERMINAL_HEIGHT_CHARS = 3
  FB_HEIGHT = 768
  CpuCount = 1
  MaxScrolls = 3
SPECIFICATION Spec
INVARIANT HandlersRunTypedWords
