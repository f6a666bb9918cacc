SPECIFICATION Spec
CONSTANTS
  w1 = w1 w2 = w2 lead = lead saisie1 = saisie1 saisie2 = saisie2
  fp1 = fp1 fp2 = fp2 NoFp = NoFp
  Workers = {w1}
  Opps = {lead, saisie1, saisie2}
  Fps = {fp1, fp2}
  FpOf <- LeadWithoutOrder
  SaisieOf <- TwoSaisies
  Rank <- ThreeRanks
  NStages = 2
  Won = 2
  PageMax = 1
  MaxChanges = 1
  MaxDeliveries = 1
  MaxFails = 0
  MaxCrashes = 0
PROPERTY CutListDeletesNothing
