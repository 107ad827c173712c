CONSTANTS
  Tasks = {t1, t2}
  Main = main
  Ext = ext
  None = none
SPECIFICATION Spec
PROPERTIES AcceptsWithinRun
CHECK_DEADLOCK FALSE
