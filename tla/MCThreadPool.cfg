CONSTANTS
  Tasks = {t1, t2, t3}
  Threads = {w1, w2}
  Owner = owner
  Ext = ext
  None = none
SYMMETRY Symmetric
SPECIFICATION Spec
INVARIANTS TypeOK ThreadsStart ServicesOutliveTasks NothingLeft OwnTasksFinish
  WaitsAreAnswered
PROPERTIES WaitsForCounted KeepsPromise
CHECK_DEADLOCK FALSE
