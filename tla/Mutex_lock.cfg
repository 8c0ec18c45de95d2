SPECIFICATION PoisonSpec
CONSTANTS
  Threads = {t1, t2, t3, t4}
  NoOwner = NoOwner
INVARIANT MutualExclusion
PROPERTIES ImplementsMutex OkMeansConsistent
