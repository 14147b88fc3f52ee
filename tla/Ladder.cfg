CONSTANTS
  Levels <- MCLevels
  Risks = {1, 2}
  Stops = {0, 1, 3}
  Drifts <- MCDrifts
  RiskRewards = {0, 1, 3}
  Percents = {0, 5}
SPECIFICATION Spec
CHECK_DEADLOCK FALSE
INVARIANTS
  TypeOK
  PaperLadderIsOrdered
  PaperFirstLevelPaysMinRR
  QuantitiesAgree
  AcceptedLadderIsShared
