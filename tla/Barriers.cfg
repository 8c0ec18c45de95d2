SPECIFICATION BothSpec
CONSTANTS
  Threads = {t1, t2}
  NoOwner = NoOwner
  Initial = 1
  MaxDowns = 2
  Waits = {"forever", "timeout", "poll"}
  BarThreads = {t1, t2, t3}
  num_threads = 3
  MaxRounds = 2
INVARIANTS AnswersTrue NobodyLeavesEarly OneLeader SleepersWoken
PROPERTY TimedWaitReturns
CHECK_DEADLOCK FALSE
