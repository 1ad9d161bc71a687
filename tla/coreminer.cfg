SPECIFICATION Spec
CONSTANT Threads = {t1, t2}
PROPERTY SharesSent
CHECK_DEADLOCK FALSE
