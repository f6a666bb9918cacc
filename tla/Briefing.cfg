SPECIFICATION FairSpec
CONSTANTS
  Roles = {"dg", "daf"}
  Keys = {"dg", "dg@CI", "daf"}
  RoleOf <- MCRoleOf
  Workers = {"w1", "w2"}
  Nightly = {"night"}
  Users = {"u1", "u2"}
  WorkerOf <- MCWorkerOf
  Changing = {"dg"}
  MaxVersion = 1
  MaxCalls = 2
  MaxFails = 1
INVARIANTS TypeOK 
PROPERTIES NoSectionLost EventuallyCurrent
