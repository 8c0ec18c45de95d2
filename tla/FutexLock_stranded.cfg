CONSTANT Threads = {t1, t2, t3}
CONSTANT NoOwner = NoOwner
SPECIFICATION Spec
INVARIANT NotStranded
CHECK_DEADLOCK FALSE
