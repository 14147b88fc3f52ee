CONSTANTS
  Symbols = {s1, s2}
  Prices = {3, 5, 7, 9}
  EntryPrices = {5}
  Plans <- OrderPlans
  Ladders <- MCLadders
  None = None
  Track = Track
  MaxOpen = 1
  Size = 10
  Fraction1 = 3
  Fraction2 = 3
  Activation <- MCActivation
  TrailDistance <- MCTrailDistance
  NetFloor <- MCNetFloor
  Swings <- MCSwings
  StartBalance = 20
  MarginPerUnit = 1
  AutoExit = {TRUE}
  UseAcr = FALSE
  AgentControls = {TRUE, FALSE}
  MaxEntries = 2
SPECIFICATION Spec

INVARIANTS
  CapacityRespected
PROPERTIES
  ExitsOnlyItsTrade
  ClosedIsNotReopened
