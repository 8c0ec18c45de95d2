SPECIFICATION Spec
CONSTANTS
  N = 2
  Clients = {c1}
  Submitters = {c1}
  Managers = {c1}
  MaxCalls = 2
  MaxPanics = 0
INVARIANT OwnWorkDone
CHECK_DEADLOCK FALSE
