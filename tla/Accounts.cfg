SPECIFICATION FairSpec
CONSTANTS
  Users = {"u1", "u2"}
  Personas = {"dg"}
  Views = {"forecast", "clients"}
  DefaultAccess <- MCDefaultAccess
  Workers = {"w1", "w2"}
  Tasks = {"t1", "t3"}
  WorkerOf <- MCTwoWorkers
  InitialUsers <- MCInitial
  Asks <- MCAsks
  MaxRequests = 2
INVARIANTS TypeOK LastAdmin OwnChangesSeen
PROPERTY EventuallyCurrent
