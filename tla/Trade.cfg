CONSTANTS
  Symbols = {s1}
  Prices = {3, 5, 6, 7, 9, 11, 13}
  EntryPrices = {5}
  Plans <- TradePlans
  Ladders <- MCLadders
  None = None
  Track = Track
  MaxOpen = 1
  Size = 10
  Fraction1 = 3
  Fraction2 = 3
  Activation <- MCActivation
  TrailDistance <- MCTrailDistance
  NetFloor <- MCNetFloor
  Swings <- MCSwings
  StartBalance = 100
  MarginPerUnit = 1
  AutoExit = {TRUE, FALSE}
  UseAcr = TRUE
  AgentControls = {TRUE}
  MaxEntries = 1
SPECIFICATION FairSpec
INVARIANTS
  TypeOK
  LadderAccounted
  BooksBalance
  RiskFreeAfterPartial
PROPERTIES
  StopNeverLoosens
  KeepsContract
  ExpiredOrderLeaves
