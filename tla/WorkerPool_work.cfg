SPECIFICATION FairSpec
CONSTANTS
  N = 2
  Clients = {c1, c2}
  Submitters = {c1}
  Managers = {c2}
  MaxCalls = 2
  MaxPanics = 1
INVARIANTS WorkConserved DrainedAtReturn RunningSeen
PROPERTIES AcceptedWorkRuns ShutdownReturns
CHECK_DEADLOCK FALSE
