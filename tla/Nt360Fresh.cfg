SPECIFICATION FairSpec
CONSTANTS
  w1 = w1 w2 = w2 lead = lead saisie1 = saisie1 saisie2 = saisie2
  fp1 = fp1 fp2 = fp2 NoFp = NoFp
  Workers = {w1, w2}
  Opps = {lead, saisie1}
  Fps = {fp1}
  FpOf <- OneOrder
  SaisieOf <- OneSaisie
  Rank <- TwoRanks
  NStages = 2
  Won = 2
  PageMax = 1
  MaxChanges = 1
  MaxDeliveries = 1
  MaxFails = 0
  MaxCrashes = 1
PROPERTIES EventuallyFresh EventuallyNoGhost ReceivedSettles
