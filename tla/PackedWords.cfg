SPECIFICATION WordsSpec
CONSTANTS
  AtomThreads = {a1, a2}
  HalfSize = 4
  Args = {1, 3}
  AtomCalls = 2
  BitOr <- WordOr
  BitAnd <- WordAnd
  Threads = {t1, t2, t3}
  NoOwner = NoOwner
  FieldSize = 4
  PhaseSize = 4
  Members0 = {t1, t2}
  Operations = {"register", "await", "deregister", "terminate"}
  MaxCalls = 2
INVARIANTS HalvesIndependent PartiesExact
PROPERTY AdvanceNeedsAll
CHECK_DEADLOCK FALSE
