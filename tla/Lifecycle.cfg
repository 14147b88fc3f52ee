SPECIFICATION FairSpec
CONSTANTS
  Prices = {111, 121}
  Entry = 100
  InitialStop = 95
  LevelPrice <- LevelPrices
  Tenth = 1
  Percent = 5
  Fees = 1
  LeastProfit = 20
  MaxFaults = 1
INVARIANTS
  TypeOK
  NoLevelForgotten
PROPERTIES
  StopNeverLoosens
  StoreFollowsPosition
  StopCatchesUp
