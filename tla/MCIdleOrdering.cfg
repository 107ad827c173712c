CONSTANTS
  Tasks = {t1, t2, t3}
  Main = main
  Ext = ext
SPECIFICATION FairSpec
INVARIANTS TypeOK NoLostWakeup
PROPERTIES ReturnSeesTasks HangsOnlyOnLostTask
CHECK_DEADLOCK FALSE
