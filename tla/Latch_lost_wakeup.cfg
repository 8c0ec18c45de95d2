SPECIFICATION Spec
CONSTANTS
  Threads = {t1, t2}
  NoOwner = NoOwner
  Initial = 1
  MaxDowns = 1
  Waits = {"forever"}
INVARIANT ReleasedAtZero
CHECK_DEADLOCK FALSE
