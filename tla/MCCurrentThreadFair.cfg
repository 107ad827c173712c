CONSTANTS
  Tasks = {t1, t2}
  Main = main
  Ext = ext
  None = none
SPECIFICATION FairSpec
PROPERTIES RunEnds
CHECK_DEADLOCK FALSE
