SPECIFICATION Spec
CONSTANTS
  Threads = {t1, t2}
  f1 = f1
  f2 = f2
  Keys <- MCKeys
  NoSlot = NoSlot
  MaxCalls = 3
SYMMETRY ThreadSymmetry
INVARIANTS SlotsOwned DeliveredIsReady LoneWaiterCovered
CHECK_DEADLOCK FALSE
