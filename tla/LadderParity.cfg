CONSTANTS
  Levels = {1, 2, 5, 7, 9, 10}
  Risks = {1, 2}
  Stops = {0}
  Drifts = {0}
  RiskRewards = {0, 1, 3}
  Percents = {0}
SPECIFICATION Spec
CHECK_DEADLOCK FALSE
INVARIANT GeometryIsShared
