CONSTANTS
  Tasks = {t1, t2}
  Threads = {w1}
  Owner = owner
  Ext = ext
  None = none
SPECIFICATION FairSpec
PROPERTIES ShutdownNowEnds ShutdownOnIdleEnds
CHECK_DEADLOCK FALSE
