SPECIFICATION FairSpec
CONSTANTS
  Sections = {"margins"}
  Dossiers = {"d"}
  MaxDay = 1
  MaxFigures = 1
  Retention = 0
  Workers = {"w1", "w2"}
  Tasks = {"t1", "t2", "t3"}
  WorkerOf <- MCWorkerOf
  MaxStarts = 3
INVARIANT TypeOK
PROPERTIES StoreSpec OneCallPerWorker AllEnd
