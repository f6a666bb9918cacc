SPECIFICATION Spec
CONSTANTS
  p1 = p1 p2 = p2 w1 = w1 w2 = w2 t1 = t1 t2 = t2 t3 = t3
  NoTask = NoTask NoPath = NoPath
  Paths = {p1}
  CvPaths = {p1}
  Workers = {w1}
  Tasks = {t1, t2, t3}
  WorkerOf <- OneWorker
  MaxContent = 4
  Valid = {1, 3}
  NChunks <- MCNChunks
  MaxChunks = 2
  NTargets = 2
  MaxDocs = 2
  MaxFails = 0
  FreshOnly = TRUE
  Ops <- IndexOps
SYMMETRY TaskSymmetry
INVARIANTS TypeOK NoDoubleInsert IndexFaithful NoOrphanChunks AccountedFor
