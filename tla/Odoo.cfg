SPECIFICATION FairSpec
CONSTANTS
  Records = {"so", "in", "po", "opp"}
  KindOf <- MCKindOf
  Excluded = {"in"}
  Listed = {1}
  Born = {"in", "opp"}
  Last <- MCLast
  Deletable = {"so"}
  MaxVersion = 2
  MaxNow = 1
  MaxFails = 1
  MaxCalls = 1
  Syncs = {"s1"}
  Hooks = {"h"}
  Limit <- MCLimit
  NameOf <- MCNameOf
  AmountOf <- MCAmountOf
  LinesOf <- MCLinesOf
  Tables <- MCTables
INVARIANTS TypeOK NothingMissed ViewsAddUp
PROPERTY EventuallyMirrored
