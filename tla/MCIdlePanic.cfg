CONSTANT Tasks = {t1, t2}
SPECIFICATION EndingSpec
PROPERTIES IdleOnceNoTaskLeft
CHECK_DEADLOCK FALSE
