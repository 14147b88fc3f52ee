SPECIFICATION FairSpec
CONSTANTS
  Decisions = 1
  Quantity = 6
  Minimums = {1, 2}
  ConfiguredRR = 0
  MaxFaults = 1
INVARIANT
  TypeOK
  LevelsSentOncePerSlip
PROPERTY
  NothingDroppedUnserved
  EventuallyProtected
