CONSTANT Tasks = {t1, t2, t3, t4, t5}
SPECIFICATION FairSpec
INVARIANTS TypeOK CounterExact NoLostWakeup
PROPERTIES RefinesWaitIdle ImplementsWaitIdle HangsOnlyOnLostTask
CHECK_DEADLOCK FALSE
