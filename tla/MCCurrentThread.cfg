CONSTANTS
  Tasks = {t1, t2, t3}
  Main = main
  Ext = ext
  None = none
SYMMETRY Symmetric
SPECIFICATION Spec
INVARIANTS TypeOK ReservationsHaveTasks WaitsAreAnswered
PROPERTIES RunFinishesTasks KeepsPromise
CHECK_DEADLOCK FALSE
