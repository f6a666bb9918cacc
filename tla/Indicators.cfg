SPECIFICATION FairSpec
CONSTANTS
  Workers = {"w1", "w2"}
  Syncs = {"s1", "s2"}
  Nights = {"night"}
  Admins = {"admin"}
  WorkerOf <- MCWorkerOf
  MaxDay = 2
  MaxRuns = 2
  MaxFails = 1
  Apart = TRUE
INVARIANTS TypeOK OneBase
PROPERTIES MeasuredKept EventuallyPassed
