SPECIFICATION Spec
CONSTANTS
  p1 = p1 p2 = p2 w1 = w1 w2 = w2 t1 = t1 t2 = t2 t3 = t3
  NoTask = NoTask NoPath = NoPath
  Paths = {p1, p2}
  CvPaths = {p1}
  Workers = {w1}
  Tasks = {t1}
  WorkerOf <- OneWorker
  MaxContent = 2
  Valid = {1}
  NChunks <- TwoContents
  MaxChunks = 2
  NTargets = 2
  MaxDocs = 3
  MaxFails = 0
  FreshOnly = FALSE
  Ops <- SequentialOps
INVARIANTS DeletedIsForgotten NoOrphanChunks
CHECK_DEADLOCK FALSE
