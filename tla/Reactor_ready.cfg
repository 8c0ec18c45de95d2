SPECIFICATION Spec
CONSTANTS
  Threads = {t1, t2}
  f1 = f1
  f2 = f2
  Keys <- MCKeys
  NoSlot = NoSlot
  MaxCalls = 2
INVARIANT ReadyMeansReported
CHECK_DEADLOCK FALSE
