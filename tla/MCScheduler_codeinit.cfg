CONSTANTS
  Nil = Nil
  MaxTasks = 2
  TimeSlice = 50
  MaxTaskId = 3
  MaxListCount = 2
  MaxCountWrap = 1
SPECIFICATION Spec
INVARIANTS
  RunningIsCurrent
CHECK_DEADLOCK FALSE
