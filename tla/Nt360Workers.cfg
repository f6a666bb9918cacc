SPECIFICATION Spec
CONSTANTS
  w1 = w1 w2 = w2 lead = lead saisie1 = saisie1 saisie2 = saisie2
  fp1 = fp1 fp2 = fp2 NoFp = NoFp
  Workers = {w1, w2}
  Opps = {lead, saisie1, saisie2}
  Fps = {fp1, fp2}
  FpOf <- TwoOrders
  SaisieOf <- TwoSaisies
  Rank <- ThreeRanks
  NStages = 1
  Won = 1
  PageMax = 1
  MaxChanges = 1
  MaxDeliveries = 2
  MaxFails = 1
  MaxCrashes = 0
SYMMETRY WorkerSymmetry
INVARIANTS TypeOK ReceivedIsInHand
PROPERTIES RecoveryCountsOnce FailedReadKeepsWin
