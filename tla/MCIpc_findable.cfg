CONSTANTS
  Nil = Nil
  Names = {n1, n2, n3}
  Handlers = {h1}
  MaxServices = 3
  ServiceCap = 1
  SysCap = 2
  PoolPages = 3
  MsgLens = {1, 2}
  BufLens = {1, 2}
  MaxMsgId = 2
  MaxQueues = 2
  MaxListCount = 3
  MaxCountWrap = 1
SPECIFICATION Spec
SYMMETRY NameSymmetry
INVARIANTS
  RegisteredServicesFindable
CHECK_DEADLOCK FALSE
