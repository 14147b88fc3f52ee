SPECIFICATION Spec
CONSTANTS
  Decisions = 2
  Quantity = 2
  Minimums = {0}
  ConfiguredRR = 0
  MaxFaults = 1
INVARIANT
  ExposureIsSingle
PROPERTY
  PositionGetsItsOwnLevels
