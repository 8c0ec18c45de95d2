SPECIFICATION Spec
CONSTANTS
  MaxStarts = 3
  Proofs = {2}
  Owned = {3}
  Limit = 2
  Keep = 1
  MaxOutputs = 1
  MaxStops = 2
  MaxFailures = 1
INVARIANTS ResultSurvives VerdictHonest TwoChildren ChangesTold
CHECK_DEADLOCK FALSE
