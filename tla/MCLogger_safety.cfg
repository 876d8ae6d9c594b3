CONSTANTS
  LOG_BUFFER_SIZE = 40
  SubLens = {1}
  MsgLens = {1, 2}
  InitSubLen = 1
  InitMsgLen = 2
  Levels = {0, 1, 2}
  MaxRead = 4
  MaxLogs = 4
SPECIFICATION Spec
INVARIANTS
  TypeOK
  ReadsBackLogged
