CONSTANTS
  Nil = Nil
  Names = {n1, n2, n3}
  Handlers = {h1}
  MaxServices = 3
  ServiceCap = 2
  SysCap = 1
  PoolPages = 4
  MsgLens = {1, 2}
  BufLens = {1, 2}
  MaxMsgId = 2
  MaxQueues = 2
  MaxListCount = 3
  MaxCountWrap = 1
SPECIFICATION Spec
SYMMETRY NameSymmetry
INVARIANTS
  TypeOK
  QueueCountsMatch
CHECK_DEADLOCK FALSE
