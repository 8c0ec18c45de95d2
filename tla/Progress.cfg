SPECIFICATION AllSpec
CONSTANTS
  Threads = {t1, t2, t3}
  Watched = t1
  LatePanics = TRUE
  MaxCalls = 1
  LockCalls = 2
  NoValue = NoValue
  Producers = {p1, p2}
  Consumers = {c1, c2}
  NoOwner = NoOwner
  MaxItems = 2
  MaxTimeouts = 1
INVARIANTS OneRunner RunningHasRunner ReturnsInitialised AnswersAgree ItemsCovered
PROPERTIES CompleteIsFinal OnceCallsEnd ValueIsFinal ItemsTaken
CHECK_DEADLOCK FALSE
