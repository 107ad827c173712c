CONSTANTS
  Tasks = {t1, t2}
  Threads = {w1}
  Owner = owner
  Ext = ext
  None = none
SPECIFICATION RunSpec
INVARIANTS SpawnedTasksRan
CHECK_DEADLOCK FALSE
