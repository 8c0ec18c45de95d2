SPECIFICATION LocksSpec
CONSTANTS
  Threads = {r1, r2, r3}
  SemThreads = {s1, s2, s3}
  Amounts = {1, 2}
  Initial = 2
  MaxAdds = 1
  MaxForgets = 1
SYMMETRY Perms
INVARIANTS StateCounts WaitingExact WritersServed
INVARIANTS PermitsConserved SleepersServed ReleaseAssertHolds
PROPERTIES ImplementsRwLock ReadersYield
CHECK_DEADLOCK FALSE
