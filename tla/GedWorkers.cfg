SPECIFICATION Spec
CONSTANTS
  p1 = p1 p2 = p2 w1 = w1 w2 = w2 t1 = t1 t2 = t2 t3 = t3
  NoTask = NoTask NoPath = NoPath
  Paths = {p1}
  CvPaths = {p1}
  Workers = {w1, w2}
  Tasks = {t1, t2}
  WorkerOf <- SplitWorkers
  MaxContent = 1
  Valid = {1}
  NChunks <- OneChunk
  MaxChunks = 1
  NTargets = 1
  MaxDocs = 2
  MaxFails = 1
  FreshOnly = TRUE
  Ops <- WorkerOps
INVARIANT LockHeldByPass
CHECK_DEADLOCK FALSE
